---- MODULE Spec2Model ----
(***************************************************************************)
(* Model of the time-series driver of FT_Sim (BulkCapacitanceProcessor),   *)
(* the pose store it writes (TransformManager) and the capacitance         *)
(* evaluation it triggers (CapacitanceCalculator).                         *)
(*                                                                         *)
(* Numbers.  glm::vec3 components are floats in millimetres; here a vec3   *)
(* is a triple of integers in whole millimetres and every float division   *)
(* or square root rounds to that grid.  The float constants of the source  *)
(* (24.85, 4/sqrt(2), cos/sin of -30 and -150 degrees) are rounded to the  *)
(* same grid.  Angles are kept in hundredths of a radian.                  *)
(***************************************************************************)
EXTENDS Integers, Sequences, FiniteSets, TLC

(***************************************************************************)
(* Bounds of the model                                                     *)
(***************************************************************************)
\* longest per-sphere file (data rows) the driver is run on
MaxLen == 3
\* longest per-sphere file (lines after the header) of the loader checks
MaxLines == 2

(***************************************************************************)
(* Vectors (glm::vec3 on the millimetre grid)                              *)
(***************************************************************************)
Zero3 == <<0, 0, 0>>

Add3(a, b) == <<a[1] + b[1], a[2] + b[2], a[3] + b[3]>>

Sub3(a, b) == <<a[1] - b[1], a[2] - b[2], a[3] - b[3]>>

Neg3(a) == <<0 - a[1], 0 - a[2], 0 - a[3]>>

Scale3(k, a) == <<k * a[1], k * a[2], k * a[3]>>

Dot3(a, b) == a[1] * b[1] + a[2] * b[2] + a[3] * b[3]

Cross3(a, b) == <<a[2] * b[3] - a[3] * b[2],
                  a[3] * b[1] - a[1] * b[3],
                  a[1] * b[2] - a[2] * b[1]>>

Abs(n) == IF n < 0 THEN 0 - n ELSE n

\* float division a / b (b > 0), rounded to the nearest grid value
DivRound(a, b) == (2 * a + b) \div (2 * b)

Div3(a, b) == <<DivRound(a[1], b), DivRound(a[2], b), DivRound(a[3], b)>>

\* A local value that is used more than once is bound over a one-element set,
\* {f(x) : x \in {e}} or \E x \in {e} : ..., so that e is evaluated once.
Only(S) == CHOOSE x \in S : TRUE

\* square root rounded down to the grid
ISqrt(n) == Only({CHOOSE r \in 0..m : r * r <= m /\ m < (r + 1) * (r + 1) : m \in {n}})

\* glm::length
Length3(a) == ISqrt(Dot3(a, a))

RECURSIVE Gcd(_, _)
Gcd(a, b) == IF b = 0 THEN a ELSE Gcd(b, a % b)

\* glm::normalize.  A unit vector is kept as the primitive integer vector of
\* its direction; the zero triple stands for the undefined (NaN) result of
\* normalising a zero-length vector.
Normalize3(a) ==
    Only({IF g = 0 THEN Zero3 ELSE <<v[1] \div g, v[2] \div g, v[3] \div g>> :
            <<v, g>> \in {<<x, Gcd(Gcd(Abs(x[1]), Abs(x[2])), Abs(x[3]))>> : x \in {a}}})

Min2(a, b) == IF a < b THEN a ELSE b

Max2(a, b) == IF a > b THEN a ELSE b

Min3(a, b, c) == Min2(a, Min2(b, c))

Max3(a, b, c) == Max2(a, Max2(b, c))

(***************************************************************************)
(* Groups, spheres, models                                                 *)
(***************************************************************************)
GroupSet == {"TAG", "TBG", "TCG"}

SphereSet == {"A", "B", "C"}

\* CapacitanceCalculator::POSITIVE_MODEL_NAMES, in mesh order
POSITIVE_MODEL_NAMES ==
    <<"A1_model", "A2_model", "B1_model", "B2_model", "C1_model", "C2_model">>

PositiveModels == {POSITIVE_MODEL_NAMES[i] : i \in 1..Len(POSITIVE_MODEL_NAMES)}

NegativeModels ==
    {"stationary_negative_A", "stationary_negative_B", "stationary_negative_C"}

(***************************************************************************)
(* Resting geometry (getRestingPositions), rounded to whole millimetres    *)
(***************************************************************************)
\* radius = 24.85f
Radius == 25
\* offset = 4.0f / sqrt(2.0f)
DiagOffset == 3
\* the 4.0f drop of the sphere below the group centre
SphereDrop == 4
\* radius * cos(-30 deg)
TbgX == 22
\* radius * sin(-30 deg)
TbgY == -12

getRestingPositions(groupName) ==
    CASE groupName = "TAG" ->
           [A |-> <<0, Radius - SphereDrop, 0>>,
            B |-> <<DiagOffset, Radius + DiagOffset, 0>>,
            C |-> <<0 - DiagOffset, Radius + DiagOffset, 0>>]
      [] groupName = "TBG" ->
           [A |-> <<TbgX - DiagOffset, TbgY + DiagOffset, 0>>,
            B |-> <<TbgX, TbgY - SphereDrop, 0>>,
            C |-> <<TbgX + DiagOffset, TbgY + DiagOffset, 0>>]
      [] groupName = "TCG" ->
           [A |-> <<(0 - TbgX) + DiagOffset, TbgY + DiagOffset, 0>>,
            B |-> <<(0 - TbgX) - DiagOffset, TbgY + DiagOffset, 0>>,
            C |-> <<0 - TbgX, TbgY - SphereDrop, 0>>]
      [] OTHER -> [A |-> Zero3, B |-> Zero3, C |-> Zero3]

addOffsets(resting, offsets) ==
    [A |-> Add3(resting.A, offsets.A),
     B |-> Add3(resting.B, offsets.B),
     C |-> Add3(resting.C, offsets.C)]

\* the reference sphere stepToRow / processCSVFiles pass for each group
ReferencePoint(groupName) ==
    CASE groupName = "TAG" -> "A"
      [] groupName = "TBG" -> "B"
      [] OTHER -> "C"

(***************************************************************************)
(* Frame fitter and rigid transform solver                                 *)
(***************************************************************************)
\* calculateCircumcenter that answers the first point for collinear points
calculateCircumcenterFirstPoint(A, B, C) ==
    Only({Only({Only({
        IF normalLengthSq < 1
        THEN a
        ELSE Add3(a, Div3(numerator, 2 * normalLengthSq)) :
            normalLengthSq \in {Dot3(normal, normal)},
            numerator \in {Cross3(Sub3(Scale3(AC_lengthSq, AB), Scale3(AB_lengthSq, AC)),
                                  normal)}}) :
            normal \in {Cross3(AB, AC)},
            AB_lengthSq \in {Dot3(AB, AB)},
            AC_lengthSq \in {Dot3(AC, AC)}}) :
            <<a, b, c, AB, AC>> \in
                {<<x, y, z, Sub3(y, x), Sub3(z, x)>> : x \in {A}, y \in {B}, z \in {C}}})

\* calculateCircumcenter: the centroid when the normal of the triple has
\* (next to) no length, else the circumcentre
calculateCircumcenter(A, B, C) ==
    Only({Only({Only({
        IF normalLengthSq < 1
        THEN Div3(Add3(Add3(a, b), c), 3)
        ELSE Add3(a, Div3(numerator, 2 * normalLengthSq)) :
            normalLengthSq \in {Dot3(normal, normal)},
            numerator \in {Cross3(Sub3(Scale3(AC_lengthSq, AB), Scale3(AB_lengthSq, AC)),
                                  normal)}}) :
            normal \in {Cross3(AB, AC)},
            AB_lengthSq \in {Dot3(AB, AB)},
            AC_lengthSq \in {Dot3(AC, AC)}}) :
            <<a, b, c, AB, AC>> \in
                {<<x, y, z, Sub3(y, x), Sub3(z, x)>> : x \in {A}, y \in {B}, z \in {C}}})

createCoordinateSystem(A, B, C, referencePoint) ==
    Only({Only({Only({
        [origin |-> origin, U |-> Normalize3(Cross3(V, W)), V |-> V, W |-> W] :
            V \in {Neg3(Normalize3(Sub3(referencePos, origin)))}}) :
            origin \in {calculateCircumcenter(a, b, c)},
            W \in {Normalize3(Cross3(Sub3(b, a), Sub3(c, a)))},
            referencePos \in {CASE referencePoint = "A" -> a
                                [] referencePoint = "B" -> b
                                [] referencePoint = "C" -> c
                                [] OTHER -> a}}) :
            a \in {A}, b \in {B}, c \in {C}})

\* the frame of a matrix that was not solved from frames
NoFrame == [origin |-> Zero3, U |-> Zero3, V |-> Zero3, W |-> Zero3]

\* A solved glm::mat4.  kind "exact": the matrix with the columns lin / den
\* and the translation trans / den, in lowest terms with den > 0.  kind
\* "frames": a matrix with irrational entries, kept as the frames it is built
\* from.  kind "nan": a matrix with non-finite entries.  kind "none": no
\* solved matrix.
NoTransform ==
    [kind |-> "none", lin |-> <<Zero3, Zero3, Zero3>>, trans |-> Zero3, den |-> 0,
     from |-> NoFrame, to |-> NoFrame]

NanTransform ==
    [kind |-> "nan", lin |-> <<Zero3, Zero3, Zero3>>, trans |-> Zero3, den |-> 0,
     from |-> NoFrame, to |-> NoFrame]

\* glm::mat4(1.0f)
IdentityTransform ==
    [kind |-> "exact", lin |-> <<<<1, 0, 0>>, <<0, 1, 0>>, <<0, 0, 1>>>>, trans |-> Zero3,
     den |-> 1, from |-> NoFrame, to |-> NoFrame]

\* the frame of glm::mat4(1.0f): fromMatrix before its columns are assigned
IdentityFrame ==
    [origin |-> Zero3, U |-> <<1, 0, 0>>, V |-> <<0, 1, 0>>, W |-> <<0, 0, 1>>]

Gcd3(a) == Gcd(Gcd(Abs(a[1]), Abs(a[2])), Abs(a[3]))

\* the matrix (lin | trans) / den in lowest terms, den > 0
ReducedTransform(lin, trans, den) ==
    Only({[kind |-> "exact",
           lin |-> <<Scale3(sg, <<lin[1][1] \div g, lin[1][2] \div g, lin[1][3] \div g>>),
                     Scale3(sg, <<lin[2][1] \div g, lin[2][2] \div g, lin[2][3] \div g>>),
                     Scale3(sg, <<lin[3][1] \div g, lin[3][2] \div g, lin[3][3] \div g>>)>>,
           trans |-> Scale3(sg, <<trans[1] \div g, trans[2] \div g, trans[3] \div g>>),
           den |-> Abs(den) \div g,
           from |-> NoFrame, to |-> NoFrame] :
            <<g, sg>> \in {<<Gcd(Gcd(Gcd3(lin[1]), Gcd3(lin[2])),
                                Gcd(Gcd(Gcd3(lin[3]), Gcd3(trans)), Abs(den))),
                             IF den < 0 THEN 0 - 1 ELSE 1>>}})

\* a matrix applied to a vector: the combination of its columns
MatVec3(m, v) == Add3(Add3(Scale3(v[1], m[1]), Scale3(v[2], m[2])), Scale3(v[3], m[3]))

\* calculateRigidBodyTransform that leaves fromMatrix as glm::mat4(1.0f)
calculateRigidBodyTransformToOnly(from, to) ==
    IF Zero3 \in {to.U, to.V, to.W}
    THEN NanTransform
    ELSE IF Dot3(to.U, to.U) = 1 /\ Dot3(to.V, to.V) = 1 /\ Dot3(to.W, to.W) = 1
    THEN ReducedTransform(<<to.U, to.V, to.W>>, to.origin, 1)
    ELSE [NoTransform EXCEPT !.kind = "frames", !.from = IdentityFrame, !.to = to]

\* toMatrix * inverse(fromMatrix).  The columns of a frame matrix are the unit
\* vectors P / |P| of the frame's integer axes P and its origin.  The inverse
\* of the matrix with columns P1, P2, P3 has the rows P2 x P3, P3 x P1,
\* P1 x P2 over the determinant.  When each axis of `to' is as long as the
\* axis of `from' the lengths cancel and the product is rational; otherwise
\* its entries are irrational.  A NaN axis or a singular fromMatrix gives
\* non-finite entries.
calculateRigidBodyTransform(from, to) ==
    IF Zero3 \in {from.U, from.V, from.W, to.U, to.V, to.W}
    THEN NanTransform
    ELSE Only({
        IF det = 0
        THEN NanTransform
        ELSE IF \/ Dot3(from.U, from.U) # Dot3(to.U, to.U)
                \/ Dot3(from.V, from.V) # Dot3(to.V, to.V)
                \/ Dot3(from.W, from.W) # Dot3(to.W, to.W)
        THEN [NoTransform EXCEPT !.kind = "frames", !.from = from, !.to = to]
        ELSE Only({
            ReducedTransform(lin,
                             Sub3(Scale3(det, to.origin), MatVec3(lin, from.origin)),
                             det) :
                lin \in {<<MatVec3(<<to.U, to.V, to.W>>, <<r1[1], r2[1], r3[1]>>),
                           MatVec3(<<to.U, to.V, to.W>>, <<r1[2], r2[2], r3[2]>>),
                           MatVec3(<<to.U, to.V, to.W>>, <<r1[3], r2[3], r3[3]>>)>>}}) :
            <<det, r1, r2, r3>> \in
                {<<Dot3(from.U, Cross3(from.V, from.W)), Cross3(from.V, from.W),
                   Cross3(from.W, from.U), Cross3(from.U, from.V)>>}})

\* the transform stepToRow / processCSVFiles compute for one row of a group
RowTransform(groupName, offsets) ==
    LET resting == getRestingPositions(groupName)
        deformed == addOffsets(resting, offsets)
        ref == ReferencePoint(groupName)
        UVW == createCoordinateSystem(resting.A, resting.B, resting.C, ref)
        IJK == createCoordinateSystem(deformed.A, deformed.B, deformed.C, ref)
    IN  calculateRigidBodyTransform(UVW, IJK)

(***************************************************************************)
(* Pose store (TransformManager)                                           *)
(***************************************************************************)
PoseGroups == {"Positiv", "TAG", "TBG", "TCG"}

\* A glm::mat4 of the pose store: the product of the rotation built from the
\* Euler angles `euler', the translation by `trans' and the solved rigid
\* transform `calc' (NoTransform when none is part of it).
IdentityMatrix == [euler |-> Zero3, trans |-> Zero3, calc |-> NoTransform]

RotationMatrix(angles) == [euler |-> angles, trans |-> Zero3, calc |-> NoTransform]

TranslationMatrix(t) == [euler |-> Zero3, trans |-> t, calc |-> NoTransform]

CalculatedMatrix(transform) == [euler |-> Zero3, trans |-> Zero3, calc |-> transform]

ZeroScalars == [rot |-> Zero3, tr |-> Zero3]

\* positivRotationY = 0.30f
PositivSampleRotY == 30
\* tagRotationY = 0.20f
TagSampleRotY == 20
\* tagRotationZ = 0.20f
TagSampleRotZ == 20

buildTransformationMatrices(t) ==
    [t EXCEPT !.matrices =
        [g \in PoseGroups |->
            [rotation |-> RotationMatrix(t.scalars[g].rot),
             translation |-> TranslationMatrix(t.scalars[g].tr)]]]

initializeDefaultTransforms(t) ==
    [t EXCEPT !.enable = [g \in PoseGroups |-> g = "Positiv"],
              !.scalars = [g \in PoseGroups |-> ZeroScalars]]

initializeSampleTransforms(t) ==
    buildTransformationMatrices(
        [t EXCEPT !.scalars =
            [g \in PoseGroups |->
                CASE g = "Positiv" -> [rot |-> <<0, PositivSampleRotY, 0>>, tr |-> Zero3]
                  [] g = "TAG" -> [rot |-> <<0, TagSampleRotY, TagSampleRotZ>>, tr |-> Zero3]
                  [] OTHER -> ZeroScalars]])

\* the members before the constructor body has run
RawTransformManager ==
    [enable |-> [g \in PoseGroups |-> FALSE],
     scalars |-> [g \in PoseGroups |-> ZeroScalars],
     matrices |-> [g \in PoseGroups |->
                     [rotation |-> IdentityMatrix, translation |-> IdentityMatrix]]]

TransformManagerCtor ==
    initializeSampleTransforms(initializeDefaultTransforms(RawTransformManager))

\* resetTransformations without the four "enable... = false" assignments
resetTransformationsKeepFlags(t) ==
    buildTransformationMatrices(
        [t EXCEPT !.scalars = [g \in PoseGroups |->
                                 IF g \in GroupSet THEN ZeroScalars ELSE t.scalars[g]]])

\* resetTransformations without "enablePositiv = false"
resetTransformationsKeepPositiv(t) ==
    buildTransformationMatrices(
        [t EXCEPT !.enable = [g \in PoseGroups |-> g = "Positiv" /\ t.enable[g]],
                  !.scalars = [g \in PoseGroups |->
                                 IF g \in GroupSet THEN ZeroScalars ELSE t.scalars[g]]])

\* resetTransformations without the closing buildTransformationMatrices()
resetTransformationsNoRebuild(t) ==
    [t EXCEPT !.enable = [g \in PoseGroups |-> FALSE],
              !.scalars = [g \in PoseGroups |->
                             IF g \in GroupSet THEN ZeroScalars ELSE t.scalars[g]]]

resetTransformations(t) ==
    buildTransformationMatrices(
        [t EXCEPT !.enable = [g \in PoseGroups |-> FALSE],
                  !.scalars = [g \in PoseGroups |->
                                 IF g \in GroupSet THEN ZeroScalars ELSE t.scalars[g]]])

\* "apply an externally computed transform to a named group": the group is
\* switched on and its composed matrices become the solved transform
applyCalculatedTransform(t, groupName, transform) ==
    IF groupName \in GroupSet
    THEN [t EXCEPT !.enable[groupName] = TRUE,
                   !.matrices[groupName] =
                       [rotation |-> CalculatedMatrix(transform),
                        translation |-> IdentityMatrix]]
    ELSE t

getModelSubGroup(modelName) ==
    CASE modelName \in {"A1_model", "A2_model", "TAG_A", "TAG_B", "TAG_C"} -> "TAG"
      [] modelName \in {"B1_model", "B2_model", "TBG_A", "TBG_B", "TBG_C"} -> "TBG"
      [] modelName \in {"C1_model", "C2_model", "TCG_A", "TCG_B", "TCG_C"} -> "TCG"
      [] modelName \in NegativeModels -> "Negativ"
      [] OTHER -> "Individual"

\* getSubGroupParent whose Negativ case also answers Positiv
getSubGroupParentAllPositiv(subGroup) == "Positiv"

getSubGroupParent(subGroup) ==
    IF subGroup = "Negativ" THEN "Negativ" ELSE "Positiv"

getModelWorldPosition(modelName) ==
    CASE modelName \in {"A1_model", "A2_model", "stationary_negative_A"} ->
           <<0, Radius, 0>>
      [] modelName \in {"B1_model", "B2_model", "stationary_negative_B"} ->
           <<TbgX, TbgY, 0>>
      [] modelName \in {"C1_model", "C2_model", "stationary_negative_C"} ->
           <<0 - TbgX, TbgY, 0>>
      [] OTHER -> Zero3

\* The product getCombinedTransform returns, kept factor by factor: the
\* translation to the model's world position, the group factor
\* (rotation * translation about the group centre) when the group is enabled,
\* and the Positiv factor when enablePositiv is set.
getCombinedTransform(t, modelName) ==
    LET subGroup == getModelSubGroup(modelName)
        parentGroup == getSubGroupParent(subGroup)
        subOn == subGroup \in GroupSet /\ t.enable[subGroup]
        parentOn == t.enable["Positiv"] /\ parentGroup = "Positiv"
    IN  [world |-> getModelWorldPosition(modelName),
         subOn |-> subOn,
         subRotation |-> IF subOn THEN t.matrices[subGroup].rotation ELSE IdentityMatrix,
         subTranslation |-> IF subOn THEN t.matrices[subGroup].translation ELSE IdentityMatrix,
         parentOn |-> parentOn,
         parentRotation |-> IF parentOn THEN t.matrices["Positiv"].rotation ELSE IdentityMatrix,
         parentTranslation |-> IF parentOn THEN t.matrices["Positiv"].translation ELSE IdentityMatrix]

(***************************************************************************)
(* Motion statistics tracker                                               *)
(***************************************************************************)
\* FLT_MAX
FltMax == 1000000

\* calculateBoundingSphere storing the current distance without std::max
calculateBoundingSphereOverwrite(stats) ==
    [stats EXCEPT !.boundingSphereRadius =
        Length3(Sub3(stats.currentPosition, stats.originalPosition))]

calculateBoundingSphere(stats) ==
    Only({[s EXCEPT !.boundingSphereRadius = Max2(s.boundingSphereRadius, currentDistance)] :
            <<s, currentDistance>> \in
                {<<x, Length3(Sub3(x.currentPosition, x.originalPosition))>> : x \in {stats}}})

updateCentroidStats(allStats, groupName, currentPositions) ==
    IF groupName \in GroupSet
    THEN Only({[allStats EXCEPT ![groupName] =
                  calculateBoundingSphere(
                      [old EXCEPT
                         !.currentPosition = currentCentroid,
                         !.minPosition = <<Min2(old.minPosition[1], currentCentroid[1]),
                                           Min2(old.minPosition[2], currentCentroid[2]),
                                           Min2(old.minPosition[3], currentCentroid[3])>>,
                         !.maxPosition = <<Max2(old.maxPosition[1], currentCentroid[1]),
                                           Max2(old.maxPosition[2], currentCentroid[2]),
                                           Max2(old.maxPosition[3], currentCentroid[3])>>])] :
                currentCentroid \in {calculateCircumcenter(currentPositions.A,
                                                           currentPositions.B,
                                                           currentPositions.C)},
                old \in {allStats[groupName]}})
    ELSE allStats

resetCentroidStats ==
    [g \in GroupSet |->
        LET resting == getRestingPositions(g)
            original == calculateCircumcenter(resting.A, resting.B, resting.C)
        IN  [originalPosition |-> original,
             currentPosition |-> original,
             minPosition |-> <<FltMax, FltMax, FltMax>>,
             maxPosition |-> <<0 - FltMax, 0 - FltMax, 0 - FltMax>>,
             boundingSphereRadius |-> 0]]

(***************************************************************************)
(* Input files                                                             *)
(*                                                                         *)
(* A file is a sequence of lines; a line is the sequence of the fields     *)
(* written between its commas, after trim().  A field is                   *)
(*   "num"     a decimal numeral, worth milli/1000 metres                  *)
(*   "numjunk" a numeral followed by other characters ("0.001abc"):        *)
(*             std::stof converts the leading numeral                      *)
(*   "junk"    text with no leading numeral: std::stof throws              *)
(*   "empty"   nothing but white space: std::stof throws                   *)
(*   "huge"    a numeral outside the float range: std::stof throws         *)
(***************************************************************************)
NumField(k) == [kind |-> "num", milli |-> k]

NumJunkField(k) == [kind |-> "numjunk", milli |-> k]

JunkField == [kind |-> "junk", milli |-> 0]

EmptyField == [kind |-> "empty", milli |-> 0]

HugeField == [kind |-> "huge", milli |-> 0]

BlankLine == <<EmptyField>>

HeaderLine == <<JunkField, JunkField, JunkField>>

MissingFile == [exists |-> FALSE, lines |-> <<>>]

\* trim(line).empty()
IsBlank(line) == Len(line) = 1 /\ line[1].kind = "empty"

\* std::getline(ss, token, ',') yields no token for the empty text after a
\* final comma
splitCSVLine(line) ==
    IF Len(line) > 1 /\ line[Len(line)].kind = "empty"
    THEN SubSeq(line, 1, Len(line) - 1)
    ELSE line

\* std::stof returns without throwing
StofOk(token) == token.kind \in {"num", "numjunk"}

\* std::stof(token) * 1000.0f: metres to millimetres
StofTimes1000(token) == (token.milli * 1000) \div 1000

parseIndividualSphereRow(line) ==
    Only({IF Len(tokens) < 3
          THEN [ok |-> FALSE, offset |-> Zero3]
          ELSE IF StofOk(tokens[1]) /\ StofOk(tokens[2]) /\ StofOk(tokens[3])
               THEN [ok |-> TRUE,
                     offset |-> <<StofTimes1000(tokens[1]), StofTimes1000(tokens[2]),
                                  StofTimes1000(tokens[3])>>]
               ELSE [ok |-> FALSE, offset |-> Zero3] :
            tokens \in {splitCSVLine(line)}})

\* the rows loadIndividualSphereFile appends to the (empty) vector it is given
SphereFileOffsets(file) ==
    LET nonBlank == SelectSeq(file.lines, LAMBDA l : ~IsBlank(l))
        data == IF nonBlank = <<>> THEN <<>> ELSE Tail(nonBlank)
    IN  Only({[i \in 1..Len(kept) |-> parseIndividualSphereRow(kept[i]).offset] :
                kept \in {SelectSeq(data, LAMBDA l : parseIndividualSphereRow(l).ok)}})

loadIndividualSphereFile(file) ==
    IF ~file.exists
    THEN [ok |-> FALSE, sphereOffsets |-> <<>>]
    ELSE Only({[ok |-> offsets # <<>>, sphereOffsets |-> offsets] :
                 offsets \in {SphereFileOffsets(file)}})

\* the series cut to the shorter of the A and B files only, the C row clamped
loadGroupFromIndividualFilesTwoFiles(files, old) ==
    LET a == loadIndividualSphereFile(files.A)
        b == loadIndividualSphereFile(files.B)
        c == loadIndividualSphereFile(files.C)
        minRows == Min2(Len(a.sphereOffsets), Len(b.sphereOffsets))
        combined == [row \in 1..minRows |->
                        [A |-> a.sphereOffsets[row],
                         B |-> b.sphereOffsets[row],
                         C |-> c.sphereOffsets[Min2(row, Len(c.sphereOffsets))]]]
    IN  IF ~a.ok THEN [ok |-> FALSE, rows |-> old]
        ELSE IF ~b.ok THEN [ok |-> FALSE, rows |-> old]
        ELSE IF ~c.ok THEN [ok |-> FALSE, rows |-> old]
        ELSE [ok |-> combined # <<>>, rows |-> combined]

\* loadGroupFromIndividualFiles: `files' are the group's A, B and C files,
\* `old' the rows groupData held before the call
loadGroupFromIndividualFiles(files, old) ==
    Only({LET minRows == Min3(Len(a.sphereOffsets), Len(b.sphereOffsets),
                              Len(c.sphereOffsets))
              combined == [row \in 1..minRows |->
                              [A |-> a.sphereOffsets[row],
                               B |-> b.sphereOffsets[row],
                               C |-> c.sphereOffsets[row]]]
          IN  IF ~a.ok THEN [ok |-> FALSE, rows |-> old]
              ELSE IF ~b.ok THEN [ok |-> FALSE, rows |-> old]
              ELSE IF ~c.ok THEN [ok |-> FALSE, rows |-> old]
              ELSE [ok |-> combined # <<>>, rows |-> combined] :
            a \in {loadIndividualSphereFile(files.A)},
            b \in {loadIndividualSphereFile(files.B)},
            c \in {loadIndividualSphereFile(files.C)}})

(***************************************************************************)
(* The csv_data directories the driver is run on                           *)
(***************************************************************************)
\* the offset (in mm) that data row i (0-based) of a sphere's file holds
RowOffset(sphere, i, pattern) ==
    CASE pattern = "rigid" -> <<i, 0, 0>>
      [] sphere = "A" -> <<i + 1, 0, 0>>
      [] sphere = "B" -> <<0, i + 1, 0>>
      [] OTHER -> <<0, 0, i + 1>>

GoodLine(v) == <<NumField(v[1]), NumField(v[2]), NumField(v[3])>>

GoodFile(sphere, n, pattern) ==
    [exists |-> TRUE,
     lines |-> <<HeaderLine>> \o [i \in 1..n |-> GoodLine(RowOffset(sphere, i - 1, pattern))]]

HeaderOnlyFile == [exists |-> TRUE, lines |-> <<HeaderLine>>]

\* no line of it parses: too few columns, then a non-numeric token
AllBadFile ==
    [exists |-> TRUE,
     lines |-> <<HeaderLine, <<NumField(1), NumField(1)>>,
                 <<NumField(1), JunkField, NumField(1)>> >>]

\* one good row among a blank line, a short row and a row with an empty field
MixedFile(sphere) ==
    [exists |-> TRUE,
     lines |-> <<BlankLine, HeaderLine, <<NumField(1)>>, BlankLine,
                 GoodLine(RowOffset(sphere, 0, "skew")),
                 <<NumField(1), EmptyField, NumField(1)>> >>]

ProfileDir(lens, pattern) ==
    [g \in GroupSet |-> [s \in SphereSet |-> GoodFile(s, lens[g], pattern)]]

FullLens == [g \in GroupSet |-> MaxLen]

BaseDir == ProfileDir(FullLens, "rigid")

\* series of different lengths, as TAG 5, TBG 3, TCG 4
StairLens == [g \in GroupSet |->
                CASE g = "TAG" -> MaxLen
                  [] g = "TBG" -> MaxLen - 2
                  [] OTHER -> MaxLen - 1]

Directories ==
    {ProfileDir(StairLens, "skew"),
     BaseDir,
     [BaseDir EXCEPT !["TAG"]["A"] = MissingFile],
     [BaseDir EXCEPT !["TBG"]["B"] = HeaderOnlyFile],
     [BaseDir EXCEPT !["TCG"]["C"] = AllBadFile],
     [BaseDir EXCEPT !["TAG"]["B"] = GoodFile("B", 1, "rigid")],
     [BaseDir EXCEPT !["TBG"]["C"] = MixedFile("C")]}

\* the row numbers stepToRow is called with
RowArgs == 0..MaxLen

(***************************************************************************)
(* State                                                                   *)
(***************************************************************************)
VARIABLES
    disk,               \* the csv_data directory: the nine per-sphere files
    diskChanged,        \* the files have been replaced since the program started
    rows,               \* tagData.rows, tbgData.rows, tcgData.rows
    maxRows,
    currentStepRow,
    stepModeActive,
    stats,              \* tagCentroidStats, tbgCentroidStats, tcgCentroidStats
    tm,                 \* the TransformManager
    positiveTriangles,  \* the calculator's world-space geometry, per positive model
    pc,                 \* position of the driver: "idle" between calls
    row,                \* loop variable of the sweep
    allResults,         \* results of the sweep so far
    evalLog,            \* the sweep's evaluations: row and pose store at each
    outFile,            \* capacitance_results.csv
    call,               \* the last call made on the processor: [op, arg]
    ret,                \* its outcome: "none", "pending", "true", "false"
    sphereData,         \* the loader's per-sphere vectors (local to a group load)
    calc,               \* a CapacitanceCalculator on its own: its member fields
    env,                \* what that calculator or the frame solver is run on
    result,             \* the value its last call returned
    app                 \* main.cpp's own step-mode globals

vars == <<disk, diskChanged, rows, maxRows, currentStepRow, stepModeActive, stats, tm,
          positiveTriangles, pc, row, allResults, evalLog, outFile, call, ret, sphereData,
          calc, env, result, app>>

\* the variables of the calculator and solver runs, which the processor's
\* operations leave alone
calcVars == <<calc, env, result>>

NoFile == [exists |-> FALSE, rows |-> <<>>]

\* refreshGeometry: the triangle list of every positive model, recomputed under
\* its current combined transform (the base mesh is fixed, so the list is
\* identified by the transform)
refreshGeometry(t) == [m \in PositiveModels |-> getCombinedTransform(t, m)]

\* calculateCapacitances: one result per positive model, in mesh order; the
\* capacitance of a model is determined by its triangle list
calculateCapacitances(triangles) ==
    [i \in 1..Len(POSITIVE_MODEL_NAMES) |->
        [modelName |-> POSITIVE_MODEL_NAMES[i],
         triangles |-> triangles[POSITIVE_MODEL_NAMES[i]]]]

\* std::vector<std::vector<glm::vec3>> sphereData(3)
NoSphereData == [s \in SphereSet |-> <<>>]

\* the processor, its TransformManager and the calculator as constructed
\* main.cpp: stepMode = false, currentRow = 0, maxRows = 0,
\* stepModeInitialized = false
AppStart ==
    [stepMode |-> FALSE, currentRow |-> 0, maxRows |-> 0, stepModeInitialized |-> FALSE]

Constructed ==
    /\ diskChanged = FALSE
    /\ rows = [g \in GroupSet |-> <<>>]
    /\ maxRows = 0
    /\ currentStepRow = 0
    /\ stepModeActive = FALSE
    /\ stats = resetCentroidStats
    /\ tm = TransformManagerCtor
    /\ positiveTriangles = refreshGeometry(TransformManagerCtor)
    /\ pc = "idle"
    /\ row = 0
    /\ allResults = <<>>
    /\ evalLog = <<>>
    /\ outFile = NoFile
    /\ call = [op |-> "none", arg |-> 0]
    /\ ret = "none"
    /\ sphereData = NoSphereData
    /\ app = AppStart

\* std::map members of a calculator before initialize: no entries
NoPairings == [m \in {} |-> ""]

NoTriangles == [m \in {} |-> <<>>]

\* CapacitanceCalculator(): device(nullptr), empty containers
NewCalculator ==
    [allModels |-> {}, device |-> FALSE, modelPairings |-> NoPairings,
     positiveTriangles |-> NoTriangles, scenes |-> {}]

\* no separate calculator or solver run is in progress
NoEnv == [kind |-> "none"]

NoRun ==
    /\ calc = NewCalculator
    /\ env = NoEnv
    /\ result = <<>>

Init ==
    /\ disk \in Directories
    /\ Constructed
    /\ NoRun

(***************************************************************************)
(* Loading                                                                 *)
(***************************************************************************)
\* the three loads without the "return false" after a failed TBG load
LoadAllGroupsIgnoreTbg(dir, old) ==
    LET tag == loadGroupFromIndividualFiles(dir["TAG"], old["TAG"])
        r1 == [old EXCEPT !["TAG"] = tag.rows]
        tbg == loadGroupFromIndividualFiles(dir["TBG"], old["TBG"])
        r2 == [r1 EXCEPT !["TBG"] = tbg.rows]
        tcg == loadGroupFromIndividualFiles(dir["TCG"], old["TCG"])
        r3 == [r2 EXCEPT !["TCG"] = tcg.rows]
    IN  IF ~tag.ok THEN [ok |-> FALSE, rows |-> r1]
        ELSE IF ~tcg.ok THEN [ok |-> FALSE, rows |-> r3]
        ELSE [ok |-> TRUE, rows |-> r3]

\* the three loadGroupFromIndividualFiles calls of initializeStepMode and
\* processCSVFiles, with their early returns
LoadAllGroups(dir, old) ==
    Only({LET r1 == [old EXCEPT !["TAG"] = tag.rows]
              r2 == [r1 EXCEPT !["TBG"] = tbg.rows]
              r3 == [r2 EXCEPT !["TCG"] = tcg.rows]
          IN  IF ~tag.ok THEN [ok |-> FALSE, rows |-> r1]
              ELSE IF ~tbg.ok THEN [ok |-> FALSE, rows |-> r2]
              ELSE IF ~tcg.ok THEN [ok |-> FALSE, rows |-> r3]
              ELSE [ok |-> TRUE, rows |-> r3] :
            tag \in {loadGroupFromIndividualFiles(dir["TAG"], old["TAG"])},
            tbg \in {loadGroupFromIndividualFiles(dir["TBG"], old["TBG"])},
            tcg \in {loadGroupFromIndividualFiles(dir["TCG"], old["TCG"])}})

\* maxRows taken with std::min instead of std::max
MaxRowsOfMin(r) == Min3(Len(r["TAG"]), Len(r["TBG"]), Len(r["TCG"]))

\* maxRows = std::max({tagData.rows.size(), tbgData.rows.size(), tcgData.rows.size()})
MaxRowsOf(r) == Max3(Len(r["TAG"]), Len(r["TBG"]), Len(r["TCG"]))

InitializeStepMode ==
    /\ pc = "idle"
    /\ call' = [op |-> "initializeStepMode", arg |-> 0]
    /\ \E loaded \in {LoadAllGroups(disk, rows)} :
           /\ rows' = loaded.rows
           /\ IF loaded.ok
              THEN /\ maxRows' = MaxRowsOf(loaded.rows)
                   /\ currentStepRow' = 0
                   /\ stepModeActive' = TRUE
                   /\ stats' = resetCentroidStats
                   /\ ret' = "true"
              ELSE /\ ret' = "false"
                   /\ UNCHANGED <<maxRows, currentStepRow, stepModeActive, stats>>
    /\ UNCHANGED <<app, calcVars, sphereData, disk, diskChanged, tm, positiveTriangles, pc, row, allResults, evalLog, outFile>>

(***************************************************************************)
(* Applying one row                                                        *)
(***************************************************************************)
\* the guard taken against the longest series instead of the group's own
rowInRangeOfMax(n, r, groupName) == n < MaxRowsOf(r)

\* the test "row < xData.rows.size()" in front of every read of xData.rows[row]
rowInRange(n, r, groupName) == n < Len(r[groupName])

\* the groups whose element xData.rows[n] an operation at row n reads: those
\* whose guarded block it enters
rowsRead(n, r) == {g \in GroupSet : rowInRange(n, r, g)}

\* one "if (row < xData.rows.size()) { ... }" block; st is [tm, stats]
ApplyGroupRow(st, groupName, n, r) ==
    IF rowInRange(n, r, groupName)
    THEN LET offsets == r[groupName][n + 1]
             deformed == addOffsets(getRestingPositions(groupName), offsets)
         IN  [tm |-> applyCalculatedTransform(st.tm, groupName,
                                              RowTransform(groupName, offsets)),
              stats |-> updateCentroidStats(st.stats, groupName, deformed)]
    ELSE st

\* the range guard written "rowNumber > maxRows"
StepRowAcceptedOffByOne(active, n, max) == active /\ ~(n > max)

\* stepToRow's guards
StepRowAccepted(active, n, max) == active /\ ~(n >= max)

StepToRow(n) ==
    /\ pc = "idle"
    /\ call' = [op |-> "stepToRow", arg |-> n]
    /\ IF StepRowAccepted(stepModeActive, n, maxRows)
       THEN \E s0 \in {[tm |-> resetTransformations(tm), stats |-> stats]} :
            \E s1 \in {ApplyGroupRow(s0, "TAG", n, rows)} :
            \E s2 \in {ApplyGroupRow(s1, "TBG", n, rows)} :
            \E s3 \in {ApplyGroupRow(s2, "TCG", n, rows)} :
                /\ currentStepRow' = n
                /\ tm' = s3.tm
                /\ stats' = s3.stats
                /\ ret' = "true"
       ELSE /\ ret' = "false"
            /\ UNCHANGED <<currentStepRow, tm, stats>>
    /\ UNCHANGED <<app, calcVars, sphereData, disk, diskChanged, rows, maxRows, stepModeActive, positiveTriangles, pc, row,
                   allResults, evalLog, outFile>>

\* printCurrentRowInfo: prints the current row of each group that has one;
\* a const member, it changes nothing in the processor
PrintCurrentRowInfo ==
    /\ pc = "idle"
    /\ call' = [op |-> "printCurrentRowInfo", arg |-> 0]
    /\ ret' = "none"
    /\ UNCHANGED <<app, calcVars, sphereData, disk, diskChanged, rows, maxRows, currentStepRow, stepModeActive,
                   stats, tm, positiveTriangles, pc, row, allResults, evalLog, outFile>>

(***************************************************************************)
(* The sweep (processCSVFiles)                                             *)
(***************************************************************************)
ProcessCSVFiles ==
    /\ pc = "idle"
    /\ call' = [op |-> "processCSVFiles", arg |-> 0]
    /\ stats' = resetCentroidStats
    /\ \E loaded \in {LoadAllGroups(disk, rows)} :
           /\ rows' = loaded.rows
           /\ IF loaded.ok
              THEN /\ maxRows' = MaxRowsOf(loaded.rows)
                   /\ allResults' = <<>>
                   /\ evalLog' = <<>>
                   /\ row' = 0
                   /\ pc' = "loop"
                   /\ ret' = "pending"
              ELSE /\ ret' = "false"
                   /\ UNCHANGED <<maxRows, allResults, evalLog, row, pc>>
    /\ UNCHANGED <<app, calcVars, sphereData, disk, diskChanged, currentStepRow, stepModeActive, tm, positiveTriangles, outFile>>

\* loop test passed: resetTransformations
SweepReset ==
    /\ pc = "loop"
    /\ row < maxRows
    /\ tm' = resetTransformations(tm)
    /\ pc' = "applyTAG"
    /\ UNCHANGED <<app, calcVars, sphereData, disk, diskChanged, rows, maxRows, currentStepRow, stepModeActive, stats,
                   positiveTriangles, row, allResults, evalLog, outFile, call, ret>>

ApplyPc(groupName) ==
    CASE groupName = "TAG" -> "applyTAG"
      [] groupName = "TBG" -> "applyTBG"
      [] OTHER -> "applyTCG"

\* the loop body with refreshGeometry moved before the TCG block
AfterApplyRefreshEarly(groupName) ==
    CASE groupName = "TAG" -> "applyTBG"
      [] OTHER -> "refresh"

\* what follows a group's block in the loop body
AfterApply(groupName) ==
    CASE groupName = "TAG" -> "applyTBG"
      [] groupName = "TBG" -> "applyTCG"
      [] OTHER -> "refresh"

SweepApply(groupName) ==
    /\ pc = ApplyPc(groupName)
    /\ \E s \in {ApplyGroupRow([tm |-> tm, stats |-> stats], groupName, row, rows)} :
           /\ tm' = s.tm
           /\ stats' = s.stats
    /\ pc' = AfterApply(groupName)
    /\ UNCHANGED <<app, calcVars, sphereData, disk, diskChanged, rows, maxRows, currentStepRow, stepModeActive,
                   positiveTriangles, row, allResults, evalLog, outFile, call, ret>>

SweepRefresh ==
    /\ pc = "refresh"
    /\ positiveTriangles' = refreshGeometry(tm)
    /\ pc' = "evaluate"
    /\ UNCHANGED <<app, calcVars, sphereData, disk, diskChanged, rows, maxRows, currentStepRow, stepModeActive, stats, tm,
                   row, allResults, evalLog, outFile, call, ret>>

SweepEvaluate ==
    /\ pc = "evaluate"
    /\ allResults' = Append(allResults, calculateCapacitances(positiveTriangles))
    /\ evalLog' = Append(evalLog, [row |-> row, tm |-> tm])
    /\ row' = row + 1
    /\ pc' = "loop"
    /\ UNCHANGED <<app, calcVars, sphereData, disk, diskChanged, rows, maxRows, currentStepRow, stepModeActive, stats, tm,
                   positiveTriangles, outFile, call, ret>>

\* saveResults writing the 0-based index i as the row number
saveResultsZeroBased(results) ==
    [exists |-> TRUE,
     rows |-> [i \in 1..Len(results) |-> [Row |-> i - 1, results |-> results[i]]]]

\* the rows saveResults writes: "i + 1" and the capacitances of allResults[i]
saveResults(results) ==
    [exists |-> TRUE,
     rows |-> [i \in 1..Len(results) |-> [Row |-> (i - 1) + 1, results |-> results[i]]]]

\* loop test failed: saveResults; the output file can or cannot be created.
\* processCSVFiles then returns its bool; allResults is a local vector of
\* processCSVFiles and ends with the call on either path.
SweepSave ==
    /\ pc = "loop"
    /\ ~(row < maxRows)
    /\ \E canCreate \in BOOLEAN :
          IF canCreate
          THEN outFile' = saveResults(allResults) /\ ret' = "true"
          ELSE outFile' = outFile /\ ret' = "false"
    /\ allResults' = <<>>
    /\ pc' = "idle"
    /\ UNCHANGED <<app, calcVars, sphereData, disk, diskChanged, rows, maxRows, currentStepRow, stepModeActive, stats, tm,
                   positiveTriangles, row, evalLog, call>>

\* the files of csv_data are replaced while the program is idle
ChangeDisk(dir) ==
    /\ pc = "idle"
    /\ ~diskChanged
    /\ dir # disk
    /\ disk' = dir
    /\ diskChanged' = TRUE
    /\ UNCHANGED <<app, calcVars, sphereData, rows, maxRows, currentStepRow, stepModeActive, stats, tm,
                   positiveTriangles, pc, row, allResults, evalLog, outFile, call, ret>>

Next ==
    \/ InitializeStepMode
    \/ \E n \in RowArgs : StepToRow(n)
    \/ PrintCurrentRowInfo
    \/ ProcessCSVFiles
    \/ \E dir \in Directories : ChangeDisk(dir)
    \/ SweepReset
    \/ \E g \in GroupSet : SweepApply(g)
    \/ SweepRefresh
    \/ SweepEvaluate
    \/ SweepSave

Spec == Init /\ [][Next]_vars

(***************************************************************************)
(* The loader on its own, run on files drawn line by line                  *)
(***************************************************************************)
\* the group whose three files are drawn
DrawnGroup == "TAG"

\* index of a sphere's vector in sphereData, written 1-based
SphereIndex(sphere) ==
    CASE sphere = "A" -> 1
      [] sphere = "B" -> 2
      [] OTHER -> 3

\* the first field (in mm) of data line i of a sphere's file
DataLineValue(sphere, i) == 10 * i + SphereIndex(sphere)

LineKinds == {"good", "short", "long", "junk", "numjunk", "blank", "trailing", "empty", "huge"}

\* a line of text by kind: "v,0,0"  "v,0"  "v,0,0,0"  "v,abc,0"  "v,0abc,0"
\* ""  "v,0,0,"  "v,,0"  "v,1e99,0"
LineOfKind(kind, v) ==
    CASE kind = "good" -> <<NumField(v), NumField(0), NumField(0)>>
      [] kind = "short" -> <<NumField(v), NumField(0)>>
      [] kind = "long" -> <<NumField(v), NumField(0), NumField(0), NumField(0)>>
      [] kind = "junk" -> <<NumField(v), JunkField, NumField(0)>>
      [] kind = "numjunk" -> <<NumField(v), NumJunkField(0), NumField(0)>>
      [] kind = "blank" -> BlankLine
      [] kind = "trailing" -> <<NumField(v), NumField(0), NumField(0), EmptyField>>
      [] kind = "empty" -> <<NumField(v), EmptyField, NumField(0)>>
      [] OTHER -> <<NumField(v), HugeField, NumField(0)>>

\* a header line and then one data line per entry of kinds
FileOfKinds(sphere, kinds) ==
    [exists |-> TRUE,
     lines |-> <<HeaderLine>> \o
               [i \in 1..Len(kinds) |-> LineOfKind(kinds[i], DataLineValue(sphere, i))]]

\* the files of at most MaxLines data lines over the given kinds, and no file
SphereFiles(sphere, kindSet) ==
    {FileOfKinds(sphere, kinds) : kinds \in UNION {[1..n -> kindSet] : n \in 0..MaxLines}}
        \cup {MissingFile}

LoaderDirectories ==
    {[BaseDir EXCEPT ![DrawnGroup] = [A |-> a, B |-> b, C |-> c]] :
        a \in SphereFiles("A", LineKinds),
        b \in SphereFiles("B", {"good", "short"}),
        c \in SphereFiles("C", {"good"})}

InitLoad ==
    /\ disk \in LoaderDirectories
    /\ Constructed
    /\ NoRun

RetOf(ok) == IF ok THEN "true" ELSE "false"

\* loadIndividualSphereFile(path, sphereData[i]) on fresh vectors
LoadIndividualSphereFile(groupName, sphere) ==
    /\ pc = "idle"
    /\ call.op = "none"
    /\ call' = [op |-> "loadIndividualSphereFile", arg |-> SphereIndex(sphere)]
    /\ \E r \in {loadIndividualSphereFile(disk[groupName][sphere])} :
           /\ sphereData' = [NoSphereData EXCEPT ![sphere] = r.sphereOffsets]
           /\ ret' = RetOf(r.ok)
    /\ UNCHANGED <<app, calcVars, disk, diskChanged, rows, maxRows, currentStepRow, stepModeActive, stats, tm,
                   positiveTriangles, pc, row, allResults, evalLog, outFile>>

\* the vectors loadGroupFromIndividualFiles has filled when it returns
SphereDataLoaded(files) ==
    LET a == loadIndividualSphereFile(files.A)
        b == loadIndividualSphereFile(files.B)
        c == loadIndividualSphereFile(files.C)
    IN  IF ~a.ok THEN [NoSphereData EXCEPT !["A"] = a.sphereOffsets]
        ELSE IF ~b.ok THEN [NoSphereData EXCEPT !["A"] = a.sphereOffsets,
                                                !["B"] = b.sphereOffsets]
        ELSE [A |-> a.sphereOffsets, B |-> b.sphereOffsets, C |-> c.sphereOffsets]

LoadGroupFromIndividualFiles(groupName) ==
    /\ pc = "idle"
    /\ call.op = "none"
    /\ call' = [op |-> "loadGroupFromIndividualFiles", arg |-> 0]
    /\ \E r \in {loadGroupFromIndividualFiles(disk[groupName], rows[groupName])} :
           /\ rows' = [rows EXCEPT ![groupName] = r.rows]
           /\ ret' = RetOf(r.ok)
    /\ sphereData' = SphereDataLoaded(disk[groupName])
    /\ UNCHANGED <<app, calcVars, disk, diskChanged, maxRows, currentStepRow, stepModeActive, stats, tm,
                   positiveTriangles, pc, row, allResults, evalLog, outFile>>

NextLoad ==
    \/ \E sphere \in SphereSet : LoadIndividualSphereFile(DrawnGroup, sphere)
    \/ LoadGroupFromIndividualFiles(DrawnGroup)

SpecLoad == InitLoad /\ [][NextLoad]_vars

(***************************************************************************)
(* The calculator on its own (CapacitanceCalculator)                       *)
(***************************************************************************)
\* MAX_RAY_DISTANCE = 2.0f, in mm
MAX_RAY_DISTANCE == 2

\* EPSILON_0 * GLYCERIN_RELATIVE_PERMITTIVITY with the mm2 -> m2 and mm -> m
\* factors, in the unit that makes area / distance whole for the whole
\* distances up to 3 mm
Permittivity == 6

\* most triangles of a drawn mesh
MaxTriangles == 2

ModelNames == PositiveModels \cup NegativeModels

\* distances (mm) from a triangle's centre to the stationary surface: on
\* the triangle, at the cutoff, beyond the cutoff
Distances == {0, MAX_RAY_DISTANCE, MAX_RAY_DISTANCE + 1}

\* what lies along one direction of a triangle's normal in the committed
\* scene: nothing, or the stationary surface at one distance
Surfaces == {{}} \cup {{d} : d \in Distances}

\* Triangle: its area (mm2; 0 for a degenerate triangle, whose normal is the
\* fallback axis) and what its scene holds along -normal and +normal
Triangles == [area : {0, 1}, along : [1..2 -> Surfaces]]

Meshes == UNION {[1..n -> Triangles] : n \in 0..MaxTriangles}

SampleMesh == <<[area |-> 1, along |-> <<{MAX_RAY_DISTANCE}, {}>>]>>

\* a ray query that accepts a surface at any distance from tnear on
rtcIntersect1NoCutoff(surface, tnear, tfar) ==
    LET found == {d \in surface : d >= tnear}
    IN  IF found = {} THEN {} ELSE {CHOOSE d \in found : \A e \in found : d <= e}

\* rtcIntersect1: the nearest surface with tnear <= distance <= tfar, as the
\* set holding the hit distance (ray.tfar); empty when geomID stays invalid
rtcIntersect1(surface, tnear, tfar) ==
    LET found == {d \in surface : d >= tnear /\ d <= tfar}
    IN  IF found = {} THEN {} ELSE {CHOOSE d \in found : \A e \in found : d <= e}

\* the directions (1: -normal, 2: +normal) along which
\* shootRayAndCalculateContribution queries the scene: the loop body calls
\* rtcIntersect1 for both, whatever the triangle's normal and area are
raysCast(triangle) == {k \in 1..2 : triangle.area >= 0}

\* a ray's contribution that leaves the triangle's area out
rayContributionUnitArea(triangle, k) ==
    LET hit == rtcIntersect1(triangle.along[k], 0, MAX_RAY_DISTANCE)
    IN  IF hit = {}
        THEN 0
        ELSE LET distance == Only(hit)
             IN  IF distance > 0
                 THEN Permittivity \div distance
                 ELSE 0

\* one ray of shootRayAndCalculateContribution (k = 1: direction -1, k = 2: +1)
rayContribution(triangle, k) ==
    LET hit == rtcIntersect1(triangle.along[k], 0, MAX_RAY_DISTANCE)
    IN  IF hit = {}
        THEN 0
        ELSE LET distance == Only(hit)
             IN  IF distance > 0
                 THEN (Permittivity * triangle.area) \div distance
                 ELSE 0

shootRayAndCalculateContribution(triangle) ==
    rayContribution(triangle, 1) + rayContribution(triangle, 2)

\* setupModelPairings
setupModelPairings ==
    [m \in PositiveModels |->
        CASE m \in {"A1_model", "A2_model"} -> "stationary_negative_A"
          [] m \in {"B1_model", "B2_model"} -> "stationary_negative_B"
          [] m \in {"C1_model", "C2_model"} -> "stationary_negative_C"]

\* the first index of POSITIVE_MODEL_NAMES (which is also the key order of the
\* pairing map) at which a loop returns false; one past the end if none
FirstFailure(failing) ==
    IF failing = {}
    THEN Len(POSITIVE_MODEL_NAMES) + 1
    ELSE CHOOSE i \in failing : \A j \in failing : i <= j

\* extractTransformedGeometry: the triangles of the positive models in order,
\* returning false at the first one that is not in the model list
extractTransformedGeometry(models, mesh, old) ==
    LET stop == FirstFailure({i \in 1..Len(POSITIVE_MODEL_NAMES) :
                                 POSITIVE_MODEL_NAMES[i] \notin models})
        done == {POSITIVE_MODEL_NAMES[i] : i \in 1..(stop - 1)}
    IN  [ok |-> stop > Len(POSITIVE_MODEL_NAMES),
         positiveTriangles |->
             [m \in DOMAIN old \cup done |-> IF m \in done THEN mesh ELSE old[m]]]

\* createEmbreeScenes that goes on to the next pairing when the stationary
\* model or its geometry is missing
createEmbreeScenesSkipMissing(models, pairings, geometryOk, old) ==
    [ok |-> TRUE,
     scenes |-> old \cup {m \in DOMAIN pairings : pairings[m] \in models /\ geometryOk}]

\* createEmbreeScenes: one scene per pairing, in key order, returning false at
\* the first pairing whose stationary model is not in the model list or whose
\* geometry cannot be created; the scenes stored before that stay
createEmbreeScenes(models, pairings, geometryOk, old) ==
    LET stop == FirstFailure({i \in 1..Len(POSITIVE_MODEL_NAMES) :
                                 /\ POSITIVE_MODEL_NAMES[i] \in DOMAIN pairings
                                 /\ \/ pairings[POSITIVE_MODEL_NAMES[i]] \notin models
                                    \/ ~geometryOk})
    IN  [ok |-> stop > Len(POSITIVE_MODEL_NAMES),
         scenes |-> old \cup {POSITIVE_MODEL_NAMES[i] : i \in 1..(stop - 1)}]

\* the pairings for which createEmbreeScenes calls rtcNewScene: the scene is
\* created first in the loop body, so every pairing up to and including the
\* one at which the loop returns false has had one created
scenesCreated(models, pairings, geometryOk) ==
    LET stop == FirstFailure({i \in 1..Len(POSITIVE_MODEL_NAMES) :
                                 /\ POSITIVE_MODEL_NAMES[i] \in DOMAIN pairings
                                 /\ \/ pairings[POSITIVE_MODEL_NAMES[i]] \notin models
                                    \/ ~geometryOk})
    IN  {POSITIVE_MODEL_NAMES[i] :
            i \in {j \in 1..Len(POSITIVE_MODEL_NAMES) : j <= stop}}

\* the scenes released before createEmbreeScenes returns: the function holds
\* no rtcReleaseScene call
scenesReleasedEarly == {}

\* initialize(models, transformManager) on calculator c, where rtcNewDevice
\* and rtcNewGeometry succeed as e.device and e.geometry say
initialize(c, e) ==
    LET c1 == [c EXCEPT !.allModels = e.models, !.device = e.device]
        c2 == [c1 EXCEPT !.modelPairings = setupModelPairings]
        ex == extractTransformedGeometry(c2.allModels, e.mesh, c2.positiveTriangles)
        c3 == [c2 EXCEPT !.positiveTriangles = ex.positiveTriangles]
        sc == createEmbreeScenes(c3.allModels, c3.modelPairings, e.geometry, c3.scenes)
        c4 == [c3 EXCEPT !.scenes = sc.scenes]
    IN  IF ~e.device THEN [ok |-> FALSE, calc |-> c1]
        ELSE IF ~ex.ok THEN [ok |-> FALSE, calc |-> c3]
        ELSE IF ~sc.ok THEN [ok |-> FALSE, calc |-> c4]
        ELSE [ok |-> TRUE, calc |-> c4]

\* the sum the triangle loop accumulates over triangles 1..n
RECURSIVE totalCapacitance(_, _)
totalCapacitance(contribution, n) ==
    IF n = 0
    THEN 0
    ELSE totalCapacitance(contribution, n - 1)
           + (IF contribution[n] > 0 THEN contribution[n] ELSE 0)

\* calculateSingleCapacitance that never sets result.triangleCount
calculateSingleCapacitanceNoCount(c, positiveModelName) ==
    IF positiveModelName \notin DOMAIN c.positiveTriangles \/ positiveModelName \notin c.scenes
    THEN [modelName |-> positiveModelName, capacitance |-> 0, triangleCount |-> 0,
          hitCount |-> 0, averageDistance |-> 0]
    ELSE LET triangles == c.positiveTriangles[positiveModelName]
             contribution == [i \in 1..Len(triangles) |->
                                 shootRayAndCalculateContribution(triangles[i])]
         IN  [modelName |-> positiveModelName,
              capacitance |-> totalCapacitance(contribution, Len(triangles)),
              triangleCount |-> 0,
              hitCount |-> Cardinality({i \in 1..Len(triangles) : contribution[i] > 0}),
              averageDistance |-> 0]

\* calculateSingleCapacitance: the zero result when the model has no triangle
\* list or no scene; otherwise one contribution per triangle, added and
\* counted when it is positive.  totalDistance is never added to.
calculateSingleCapacitance(c, positiveModelName) ==
    IF positiveModelName \notin DOMAIN c.positiveTriangles \/ positiveModelName \notin c.scenes
    THEN [modelName |-> positiveModelName, capacitance |-> 0, triangleCount |-> 0,
          hitCount |-> 0, averageDistance |-> 0]
    ELSE LET triangles == c.positiveTriangles[positiveModelName]
             contribution == [i \in 1..Len(triangles) |->
                                 shootRayAndCalculateContribution(triangles[i])]
             totalDistance == 0
             hitCount == Cardinality({i \in 1..Len(triangles) : contribution[i] > 0})
         IN  [modelName |-> positiveModelName,
              capacitance |-> totalCapacitance(contribution, Len(triangles)),
              triangleCount |-> Len(triangles),
              hitCount |-> hitCount,
              averageDistance |-> IF hitCount > 0 THEN totalDistance \div hitCount ELSE 0]

\* the runs: every model list with every outcome of device and geometry
\* creation on one mesh, and every mesh with the full model list
CalculatorEnvs ==
    {[kind |-> "calculator", models |-> ms, device |-> d, geometry |-> g,
      mesh |-> SampleMesh] : ms \in SUBSET ModelNames, d \in BOOLEAN, g \in BOOLEAN}
    \cup
    {[kind |-> "calculator", models |-> ModelNames, device |-> TRUE, geometry |-> TRUE,
      mesh |-> m] : m \in Meshes}

InitCalc ==
    /\ disk = BaseDir
    /\ Constructed
    /\ calc = NewCalculator
    /\ result = <<>>
    /\ env \in CalculatorEnvs

Initialize ==
    /\ env.kind = "calculator"
    /\ call.op = "none"
    /\ call' = [op |-> "initialize", arg |-> 0]
    /\ \E r \in {initialize(calc, env)} :
          /\ calc' = r.calc
          /\ ret' = RetOf(r.ok)
    /\ UNCHANGED <<app, sphereData, disk, diskChanged, rows, maxRows, currentStepRow, stepModeActive,
                   stats, tm, positiveTriangles, pc, row, allResults, evalLog, outFile,
                   env, result>>

\* calculateCapacitances: one result per positive model, in mesh order
CalculateCapacitances ==
    /\ env.kind = "calculator"
    /\ call.op \in {"none", "initialize"}
    /\ call' = [op |-> "calculateCapacitances", arg |-> 0]
    /\ result' = [i \in 1..Len(POSITIVE_MODEL_NAMES) |->
                     calculateSingleCapacitance(calc, POSITIVE_MODEL_NAMES[i])]
    /\ UNCHANGED <<app, sphereData, disk, diskChanged, rows, maxRows, currentStepRow, stepModeActive,
                   stats, tm, positiveTriangles, pc, row, allResults, evalLog, outFile,
                   env, calc, ret>>

NextCalc ==
    \/ Initialize
    \/ CalculateCapacitances

SpecCalc == InitCalc /\ [][NextCalc]_vars

(***************************************************************************)
(* The frame fitter and the solver on their own, run on drawn triples      *)
(***************************************************************************)
\* largest grid index of a drawn coordinate
MaxCoord == 2

\* drawn coordinates (mm): the even ones, so that midpoints are on the grid
Coords == {2 * k : k \in 0..MaxCoord}

\* A, B and C are collinear (or coincide)
Collinear(A, B, C) == Cross3(Sub3(B, A), Sub3(C, A)) = Zero3

\* every component of a is a multiple of n
Divides3(n, a) == a[1] % n = 0 /\ a[2] % n = 0 /\ a[3] % n = 0

\* the centre calculateCircumcenter computes for the triple is on the grid
OnGrid(A, B, C) ==
    \E AB \in {Sub3(B, A)}, AC \in {Sub3(C, A)} :
       \E normal \in {Cross3(AB, AC)} :
          IF normal = Zero3
          THEN Divides3(3, Add3(Add3(A, B), C))
          ELSE Divides3(2 * Dot3(normal, normal),
                        Cross3(Sub3(Scale3(Dot3(AC, AC), AB), Scale3(Dot3(AB, AB), AC)),
                               normal))

\* the drawn triples: A on the x axis, B in the plane z = 0, C anywhere
Triples ==
    {tr \in {<<<<ax, 0, 0>>, <<bx, by, 0>>, <<cx, cy, cz>>>> :
                ax \in Coords, bx \in Coords, by \in Coords,
                cx \in Coords, cy \in Coords, cz \in Coords} :
        OnGrid(tr[1], tr[2], tr[3])}

\* the drawn translations
Translations == {<<1, 0, 0>>, <<0 - 2, 3, 5>>}

SolverEnvs ==
    {[kind |-> "solver", A |-> tr[1], B |-> tr[2], C |-> tr[3],
      referencePoint |-> ref, t |-> t] :
        tr \in Triples, ref \in SphereSet, t \in Translations}

\* the offsets of one row: none, the same translation of all three spheres,
\* a move of sphere A alone
RowOffsets(t) ==
    {[A |-> Zero3, B |-> Zero3, C |-> Zero3],
     [A |-> t, B |-> t, C |-> t],
     [A |-> t, B |-> Zero3, C |-> Zero3]}

InitSolve ==
    /\ disk = BaseDir
    /\ Constructed
    /\ calc = NewCalculator
    /\ result = <<>>
    /\ env \in SolverEnvs

\* calculateCircumcenter(A, B, C)
CalculateCircumcenter ==
    /\ env.kind = "solver"
    /\ result' = [op |-> "calculateCircumcenter",
                  value |-> calculateCircumcenter(env.A, env.B, env.C)]
    /\ UNCHANGED <<app, sphereData, disk, diskChanged, rows, maxRows, currentStepRow, stepModeActive,
                   stats, tm, positiveTriangles, pc, row, allResults, evalLog, outFile,
                   call, ret, env, calc>>

\* the per-group block of stepToRow / processCSVFiles on the drawn triple as
\* resting positions: both frames and the transform between them
SolveRow(offsets) ==
    /\ env.kind = "solver"
    /\ \E resting \in {[A |-> env.A, B |-> env.B, C |-> env.C]} :
       \E deformed \in {addOffsets(resting, offsets)} :
       \E UVW \in {createCoordinateSystem(resting.A, resting.B, resting.C,
                                          env.referencePoint)},
          IJK \in {createCoordinateSystem(deformed.A, deformed.B, deformed.C,
                                          env.referencePoint)} :
          result' = [op |-> "calculateRigidBodyTransform", offsets |-> offsets,
                     from |-> UVW, to |-> IJK,
                     transform |-> calculateRigidBodyTransform(UVW, IJK)]
    /\ UNCHANGED <<app, sphereData, disk, diskChanged, rows, maxRows, currentStepRow, stepModeActive,
                   stats, tm, positiveTriangles, pc, row, allResults, evalLog, outFile,
                   call, ret, env, calc>>

NextSolve ==
    \/ CalculateCircumcenter
    \/ \E offsets \in RowOffsets(env.t) : SolveRow(offsets)

SpecSolve == InitSolve /\ [][NextSolve]_vars

(***************************************************************************)
(* Triangle extraction (CapacitanceCalculator::extractTrianglesFromModel)  *)
(***************************************************************************)
\* unsigned int is 32 bits wide; a value is kept as its two 16-bit halves
\* <<high, low>>, and every operation is taken modulo 2^32
Half == 2^16

UInt32(high, low) == <<high % Half, low % Half>>

\* (a + k) for a small constant k
UAdd(a, k) == UInt32(a[1] + ((a[2] + k) \div Half), a[2] + k)

\* (a * 3)
UMul3(a) == UInt32(a[1] * 3 + ((a[2] * 3) \div Half), a[2] * 3)

\* a > size and a < size once a is converted to size_t; size is below 2^16
UGreater(a, size) == a[1] > 0 \/ a[2] > size

ULess(a, size) == a[1] = 0 /\ a[2] < size

\* the largest indices a model of the runs holds, and the vertex counts
MaxIndices == 6

MaxVertices == 2

\* vertex indices: two small ones, (2^32 - 1) / 3 and 2^32 - 1
IndexValues ==
    {UInt32(0, 0), UInt32(0, 1), UInt32((Half - 1) \div 3, (Half - 1) \div 3),
     UInt32(Half - 1, Half - 1)}

\* the test in front of the reads, taken in unbounded arithmetic
indexSkippedExact(idx, size) == idx[1] > 0 \/ (idx[2] + 1) * 3 > size

\* "(idx + 1) * 3 > model.vertices.size()": the product is an unsigned int
indexSkipped(idx, size) == UGreater(UMul3(UAdd(idx, 1)), size)

\* the elements model.vertices[idx * 3], [idx * 3 + 1], [idx * 3 + 2] read,
\* each subscript again an unsigned int
vertexReads(idx) == {UAdd(UMul3(idx), k) : k \in 0..2}

\* the index triples the loop reaches: "if (i + 2 >= indices.size()) break"
trianglesOfIndices(indices) ==
    [k \in 1..(Len(indices) \div 3) |->
        <<indices[3 * k - 2], indices[3 * k - 1], indices[3 * k]>>]

triangleSkipped(t, size) == \E j \in 1..3 : indexSkipped(t[j], size)

\* extractTrianglesFromModel: the triangles pushed, as their index triples,
\* and the elements of model.vertices read for them
extractTrianglesFromModel(model) ==
    Only({[triangles |-> SelectSeq(ts, LAMBDA t : ~triangleSkipped(t, model.vertices)),
           reads |-> UNION {vertexReads(ts[k][j]) :
                              k \in {i \in 1..Len(ts) : ~triangleSkipped(ts[i], model.vertices)},
                              j \in 1..3}] :
            ts \in {trianglesOfIndices(model.indices)}})

\* the models: a vertex array of 3 floats per vertex and an index array
ExtractEnvs ==
    {[kind |-> "model", vertices |-> 3 * v, indices |-> ix] :
        v \in 0..MaxVertices,
        ix \in UNION {[1..n -> IndexValues] : n \in 0..MaxIndices}}

InitExtract ==
    /\ disk = BaseDir
    /\ Constructed
    /\ calc = NewCalculator
    /\ result = <<>>
    /\ env \in ExtractEnvs

\* a read past the end of model.vertices is undefined: the call may return
\* with what it read or the program may stop
ExtractTrianglesFromModel ==
    /\ env.kind = "model"
    /\ call.op = "none"
    /\ call' = [op |-> "extractTrianglesFromModel", arg |-> 0]
    /\ \E r \in {extractTrianglesFromModel(env)} :
       \E outcome \in IF \A read \in r.reads : ULess(read, env.vertices)
                      THEN {"true"} ELSE {"true", "crashed"} :
          /\ result' = r
          /\ ret' = outcome
    /\ UNCHANGED <<app, sphereData, disk, diskChanged, rows, maxRows, currentStepRow, stepModeActive,
                   stats, tm, positiveTriangles, pc, row, allResults, evalLog, outFile,
                   env, calc>>

NextExtract ==
    \/ ExtractTrianglesFromModel

SpecExtract == InitExtract /\ [][NextExtract]_vars

(***************************************************************************)
(* The application (main.cpp): the key events of step mode and of the      *)
(* sweep, on the application's own copy of the row and of the row count    *)
(***************************************************************************)
\* series of one common length below the longest
ShortLens == [g \in GroupSet |-> MaxLen - 1]

\* the csv_data directories the application is run on: full series, shorter
\* series, and one with a file that holds no data row
AppDirectories ==
    {BaseDir,
     ProfileDir(ShortLens, "rigid"),
     [BaseDir EXCEPT !["TBG"]["B"] = HeaderOnlyFile]}

\* the processor's fields, the pose store and the last call on the processor
Processor ==
    [stepModeActive |-> stepModeActive, maxRows |-> maxRows,
     currentStepRow |-> currentStepRow, rows |-> rows, tm |-> tm, stats |-> stats,
     call |-> call, ret |-> ret]

\* bulkProcessor->stepToRow(n, *transformManager) followed, when it succeeds,
\* by bulkProcessor->printCurrentRowInfo(); p is the processor before the call
processorStepToRow(p, n) ==
    IF StepRowAccepted(p.stepModeActive, n, p.maxRows)
    THEN Only({[p EXCEPT !.currentStepRow = n, !.tm = s3.tm, !.stats = s3.stats,
                         !.call = [op |-> "printCurrentRowInfo", arg |-> 0],
                         !.ret = "none"] :
                 s3 \in {ApplyGroupRow(
                           ApplyGroupRow(
                             ApplyGroupRow([tm |-> resetTransformations(p.tm),
                                            stats |-> p.stats], "TAG", n, p.rows),
                             "TBG", n, p.rows),
                           "TCG", n, p.rows)}})
    ELSE [p EXCEPT !.call = [op |-> "stepToRow", arg |-> n], !.ret = "false"]

\* main.cpp stepToRow(row): a is the application's globals; currentRow is
\* assigned before the processor is asked
stepToRow(a, p, n) ==
    IF ~a.stepModeInitialized THEN [app |-> a, p |-> p]
    ELSE IF n >= a.maxRows THEN [app |-> a, p |-> p]
    ELSE [app |-> [a EXCEPT !.currentRow = n], p |-> processorStepToRow(p, n)]

\* main.cpp initializeStepMode(): the processor's initializeStepMode, then on
\* success the application's copy of maxRows, currentRow = 0 and stepToRow(0)
initializeStepMode(a, p, dir) ==
    Only({IF loaded.ok
          THEN stepToRow([stepMode |-> TRUE, currentRow |-> 0,
                          maxRows |-> MaxRowsOf(loaded.rows),
                          stepModeInitialized |-> TRUE],
                         [p EXCEPT !.rows = loaded.rows,
                                   !.maxRows = MaxRowsOf(loaded.rows),
                                   !.currentStepRow = 0,
                                   !.stepModeActive = TRUE,
                                   !.stats = resetCentroidStats,
                                   !.call = [op |-> "initializeStepMode", arg |-> 0],
                                   !.ret = "true"],
                         0)
          ELSE [app |-> a,
                p |-> [p EXCEPT !.rows = loaded.rows,
                                !.call = [op |-> "initializeStepMode", arg |-> 0],
                                !.ret = "false"]] :
            loaded \in {LoadAllGroups(dir, p.rows)}})

\* "currentRow < maxRows - 1" on size_t: 0 - 1 wraps to the largest value,
\* which every row is below
BelowLastRow(currentRow, max) == IF max = 0 THEN TRUE ELSE currentRow < max - 1

\* the handler leaves the application and the processor as out says
KeyHandled(out) ==
    /\ app' = out.app
    /\ stepModeActive' = out.p.stepModeActive
    /\ maxRows' = out.p.maxRows
    /\ currentStepRow' = out.p.currentStepRow
    /\ rows' = out.p.rows
    /\ tm' = out.p.tm
    /\ stats' = out.p.stats
    /\ call' = out.p.call
    /\ ret' = out.p.ret
    /\ UNCHANGED <<calcVars, sphereData, disk, diskChanged, positiveTriangles, pc, row,
                   allResults, evalLog, outFile>>

InitApp ==
    /\ disk \in AppDirectories
    /\ Constructed
    /\ NoRun

\* key S
KeyS ==
    /\ pc = "idle"
    /\ \E out \in {initializeStepMode(app, Processor, disk)} : KeyHandled(out)

\* key N
KeyN ==
    /\ pc = "idle"
    /\ \E out \in {IF app.stepMode /\ app.stepModeInitialized
                      /\ BelowLastRow(app.currentRow, app.maxRows)
                   THEN stepToRow(app, Processor, app.currentRow + 1)
                   ELSE [app |-> app, p |-> Processor]} : KeyHandled(out)

\* key P
KeyP ==
    /\ pc = "idle"
    /\ \E out \in {IF app.stepMode /\ app.stepModeInitialized /\ app.currentRow > 0
                   THEN stepToRow(app, Processor, app.currentRow - 1)
                   ELSE [app |-> app, p |-> Processor]} : KeyHandled(out)

\* key B is runBulkCapacitanceProcessing, which calls processCSVFiles and
\* touches none of the application's globals: the sweep's own actions
NextApp ==
    \/ KeyS
    \/ KeyN
    \/ KeyP
    \/ ProcessCSVFiles
    \/ SweepReset
    \/ \E g \in GroupSet : SweepApply(g)
    \/ SweepRefresh
    \/ SweepEvaluate
    \/ SweepSave
    \/ \E dir \in AppDirectories : ChangeDisk(dir)

SpecApp == InitApp /\ [][NextApp]_vars

(***************************************************************************)
(* Vocabulary of the properties                                            *)
(***************************************************************************)
\* this step is the call op(arg) on the processor
CallStep(op, arg) == pc = "idle" /\ disk' = disk /\ call' = [op |-> op, arg |-> arg]

\* this step is a call that loads the files
LoadStep == CallStep("initializeStepMode", 0) \/ CallStep("processCSVFiles", 0)

\* what the pose store holds for one group
GroupPose(t, g) ==
    [enable |-> t.enable[g], scalars |-> t.scalars[g], matrices |-> t.matrices[g]]

NeutralPose ==
    [enable |-> FALSE, scalars |-> ZeroScalars,
     matrices |-> [rotation |-> IdentityMatrix, translation |-> IdentityMatrix]]

\* the pose of a group to which the transform of `offsets' has been applied
AppliedPose(g, offsets) ==
    [enable |-> TRUE, scalars |-> ZeroScalars,
     matrices |-> [rotation |-> CalculatedMatrix(RowTransform(g, offsets)),
                   translation |-> IdentityMatrix]]

DeformedCentre(g, offsets) ==
    LET d == addOffsets(getRestingPositions(g), offsets)
    IN  calculateCircumcenter(d.A, d.B, d.C)

Untouched3 == <<FltMax, FltMax, FltMax>>

(***************************************************************************)
(* C1                                                                      *)
(***************************************************************************)
\* C1 as stated: when stepToRow(n) is applied and n is at or beyond the length
\* of a group's series, the pose an earlier row gave that group is still in
\* the pose store afterwards.
C1_HoldsLastPose ==
    [][\A n \in RowArgs, g \in GroupSet :
          (CallStep("stepToRow", n) /\ ret' = "true" /\ ~(n < Len(rows[g])) /\ tm.enable[g])
              => GroupPose(tm', g) = GroupPose(tm, g)]_vars

\* C1 as amended: in stepToRow(n) and in every sweep iteration, a group whose
\* series does not contain the row is reset to the neutral pose (flag false,
\* scalars 0, identity matrices) and only its motion envelope keeps what the
\* last applied row set; a group whose series contains the row gets that
\* row's transform and envelope update.
C1_OutOfRangeGroupReset ==
    [][/\ \A n \in RowArgs, g \in GroupSet :
             (CallStep("stepToRow", n) /\ ret' = "true")
                 => IF n < Len(rows[g])
                    THEN /\ GroupPose(tm', g) = AppliedPose(g, rows[g][n + 1])
                         /\ stats'[g].currentPosition = DeformedCentre(g, rows[g][n + 1])
                    ELSE /\ GroupPose(tm', g) = NeutralPose
                         /\ stats'[g] = stats[g]
       /\ \A g \in GroupSet :
             (pc = ApplyPc(g) /\ pc' # pc)
                 => IF row < Len(rows[g])
                    THEN /\ GroupPose(tm', g) = AppliedPose(g, rows[g][row + 1])
                         /\ stats'[g].currentPosition = DeformedCentre(g, rows[g][row + 1])
                    ELSE /\ GroupPose(tm', g) = NeutralPose
                         /\ stats'[g] = stats[g]]_vars

\* stepToRow went to a row that TAG has and TBG has not, after TBG had been
\* applied at an earlier row
C1_Witness ==
    /\ pc = "idle" /\ call.op = "stepToRow" /\ ret = "true"
    /\ currentStepRow < Len(rows["TAG"])
    /\ ~(currentStepRow < Len(rows["TBG"]))
    /\ tm.enable["TAG"] /\ ~tm.enable["TBG"]
    /\ stats["TBG"].minPosition # Untouched3

(***************************************************************************)
(* C2                                                                      *)
(***************************************************************************)
\* C2: stepToRow(n) returns true exactly when step mode is active and
\* n < maxRows, step mode becomes active only by a successful
\* initializeStepMode, and a failing stepToRow leaves currentStepRow, the pose
\* store and the three envelopes as they were.
C2_StepToRowAllOrNothing ==
    [][/\ \A n \in RowArgs :
             CallStep("stepToRow", n)
                 => /\ ret' \in {"true", "false"}
                    /\ (ret' = "true") <=> (stepModeActive /\ n < maxRows)
                    /\ (ret' = "false") => UNCHANGED <<currentStepRow, tm, stats>>
       /\ (stepModeActive' /\ ~stepModeActive)
             => (CallStep("initializeStepMode", 0) /\ ret' = "true")]_vars

\* a stepToRow(maxRows) was refused in step mode with a group pose in place
C2_Witness ==
    /\ pc = "idle" /\ call = [op |-> "stepToRow", arg |-> maxRows] /\ ret = "false"
    /\ stepModeActive /\ currentStepRow > 0
    /\ tm.enable["TAG"] /\ stats["TAG"].boundingSphereRadius > 0

(***************************************************************************)
(* C3                                                                      *)
(***************************************************************************)
\* every group has been dealt with for row n: applied when its series has the
\* row, left reset otherwise
WholeRowApplied(t, n, r) ==
    \A g \in GroupSet :
        GroupPose(t, g) = IF n < Len(r[g]) THEN AppliedPose(g, r[g][n + 1]) ELSE NeutralPose

\* C3: in the sweep, when the geometry refresh and the evaluation of a row
\* run, the reset and every in-range group's transform of that row are in the
\* pose store; each evaluation computes from the geometry of that pose store.
C3_EvaluationSeesWholeRow ==
    /\ (pc \in {"refresh", "evaluate"}) => WholeRowApplied(tm, row, rows)
    /\ (pc = "evaluate") => positiveTriangles = refreshGeometry(tm)
    /\ (pc # "idle") =>
          /\ Len(allResults) = Len(evalLog)
          /\ \A i \in 1..Len(evalLog) :
                /\ WholeRowApplied(evalLog[i].tm, evalLog[i].row, rows)
                /\ allResults[i] = calculateCapacitances(refreshGeometry(evalLog[i].tm))

\* the second row of a sweep is about to be evaluated with all groups applied
C3_Witness ==
    /\ pc = "evaluate" /\ row = 1
    /\ \A g \in GroupSet : tm.enable[g]
    /\ Len(evalLog) = 1

(***************************************************************************)
(* C4                                                                      *)
(***************************************************************************)
\* C4 as stated: when the reset of a row has run and no group transform of
\* the row is applied yet, every enable flag is false, every
\* rotation/translation scalar of the pose store is 0 and the matrices are
\* those built from the scalars.
C4_ResetLeavesNothing ==
    (pc = "applyTAG") =>
        /\ \A g \in PoseGroups : ~tm.enable[g] /\ tm.scalars[g] = ZeroScalars
        /\ tm = buildTransformationMatrices(tm)

(***************************************************************************)
(* C5                                                                      *)
(***************************************************************************)
\* C5: a load that succeeds leaves maxRows equal to the largest of the three
\* series lengths.
C5_MaxRowsIsLongestSeries ==
    [][(LoadStep /\ ret' \in {"true", "pending"})
          => /\ \A g \in GroupSet : Len(rows'[g]) <= maxRows'
             /\ \E g \in GroupSet : Len(rows'[g]) = maxRows']_vars

\* a load has succeeded on three series of three different lengths
C5_Witness ==
    /\ call.op \in {"initializeStepMode", "processCSVFiles"}
    /\ ret \in {"true", "pending"}
    /\ Len(rows["TAG"]) # Len(rows["TBG"])
    /\ Len(rows["TBG"]) # Len(rows["TCG"])
    /\ Len(rows["TAG"]) # Len(rows["TCG"])
    /\ maxRows = Len(rows["TAG"])

(***************************************************************************)
(* C6                                                                      *)
(***************************************************************************)
\* C6: while a sweep runs its evaluations are those of rows 0, 1, ... in
\* order, one result vector each; when it has succeeded there are maxRows of
\* them and the output file holds maxRows rows numbered 1..maxRows, row i
\* carrying the i-th result vector.
C6_SweepRowsInOrder ==
    /\ (pc # "idle") =>
          /\ Len(evalLog) = row /\ Len(allResults) = row /\ row <= maxRows
          /\ \A i \in 1..Len(evalLog) : evalLog[i].row = i - 1
    /\ (pc = "idle" /\ call.op = "processCSVFiles" /\ ret = "true") =>
          /\ Len(evalLog) = maxRows
          /\ \A i \in 1..maxRows : evalLog[i].row = i - 1
          /\ outFile.exists
          /\ Len(outFile.rows) = maxRows
          /\ \A i \in 1..maxRows :
                /\ outFile.rows[i].Row = i
                /\ outFile.rows[i].results =
                      calculateCapacitances(refreshGeometry(evalLog[i].tm))

\* a sweep over the longest series has succeeded
C6_Witness ==
    /\ pc = "idle" /\ call.op = "processCSVFiles" /\ ret = "true"
    /\ maxRows = MaxLen /\ Len(outFile.rows) = MaxLen

(***************************************************************************)
(* C7                                                                      *)
(***************************************************************************)
\* C7: a group's boundingSphereRadius never decreases, except that it returns
\* to 0 in a successful initializeStepMode and at the start of
\* processCSVFiles; stepToRow never lowers it.  (It is 0 after construction.)
C7_RadiusMonotone ==
    [][\A g \in GroupSet :
          \/ stats'[g].boundingSphereRadius >= stats[g].boundingSphereRadius
          \/ /\ stats'[g].boundingSphereRadius = 0
             /\ \/ CallStep("initializeStepMode", 0) /\ ret' = "true"
                \/ CallStep("processCSVFiles", 0)]_vars

\* stepping back: the envelope keeps a radius larger than the current
\* displacement
C7_Witness ==
    /\ pc = "idle" /\ call.op = "stepToRow" /\ ret = "true"
    /\ stats["TAG"].boundingSphereRadius >
          Length3(Sub3(stats["TAG"].currentPosition, stats["TAG"].originalPosition))

(***************************************************************************)
(* C8                                                                      *)
(***************************************************************************)
\* the file is missing or no line of it is kept
FileFails(file) == ~file.exists \/ SphereFileOffsets(file) = <<>>

AnyFileFails(dir) == \E g \in GroupSet, s \in SphereSet : FileFails(dir[g][s])

\* C8: a load from a directory in which one of the nine files is missing or
\* yields no valid row returns false at once: no row processing starts, the
\* pose store and the calculator's geometry are untouched, nothing is
\* evaluated and the output file is not written.
C8_BadFileAbortsBeforeRows ==
    [][(LoadStep /\ AnyFileFails(disk))
          => /\ ret' = "false" /\ pc' = "idle"
             /\ UNCHANGED <<tm, positiveTriangles, allResults, evalLog, outFile,
                            maxRows, currentStepRow>>]_vars

\* a sweep was refused for a bad file after an earlier sweep had posed the
\* groups and written its results
C8_Witness ==
    /\ pc = "idle" /\ call.op = "processCSVFiles" /\ ret = "false"
    /\ AnyFileFails(disk)
    /\ tm.enable["TAG"] /\ outFile.exists

(***************************************************************************)
(* C9, C10: the per-sphere loader                                          *)
(***************************************************************************)
\* this step is loadIndividualSphereFile on the drawn group's file of a sphere
FileStep(sphere) ==
    /\ call.op = "none"
    /\ call' = [op |-> "loadIndividualSphereFile", arg |-> SphereIndex(sphere)]

\* this step is loadGroupFromIndividualFiles on the drawn group
GroupStep == call.op = "none" /\ call'.op = "loadGroupFromIndividualFiles"

\* a data row of exactly three columns, each a number
WellFormedRow(line) == Len(line) = 3 /\ \A i \in 1..3 : line[i].kind = "num"

RECURSIVE WellFormedOffsets(_)
\* the offsets (mm) of the well-formed rows among the lines, in order
WellFormedOffsets(lines) ==
    IF lines = <<>> THEN <<>>
    ELSE IF WellFormedRow(Head(lines))
         THEN <<<<Head(lines)[1].milli, Head(lines)[2].milli, Head(lines)[3].milli>>>>
                  \o WellFormedOffsets(Tail(lines))
         ELSE WellFormedOffsets(Tail(lines))

\* the lines after the header
DataLines(file) == IF file.lines = <<>> THEN <<>> ELSE Tail(file.lines)

\* C9: loading a per-sphere file keeps exactly its well-formed rows (three
\* columns, all numeric), in file order, rejecting every row with fewer or more
\* than three columns or a non-numeric token, and the load fails if and only
\* if no valid row remains.
C9_MalformedRowsRejected ==
    [][\A sphere \in SphereSet :
          FileStep(sphere) =>
             LET want == WellFormedOffsets(DataLines(disk[DrawnGroup][sphere]))
             IN  /\ sphereData'[sphere] = want
                 /\ (ret' = "true") <=> (want # <<>>)]_vars

RECURSIVE KeptFrom(_, _)
\* the rows the file loop keeps from the lines; headerSeen is ~firstLine
KeptFrom(lines, headerSeen) ==
    IF lines = <<>> THEN <<>>
    ELSE IF IsBlank(Head(lines)) THEN KeptFrom(Tail(lines), headerSeen)
    ELSE IF ~headerSeen THEN KeptFrom(Tail(lines), TRUE)
    ELSE IF parseIndividualSphereRow(Head(lines)).ok
         THEN <<parseIndividualSphereRow(Head(lines)).offset>> \o KeptFrom(Tail(lines), TRUE)
         ELSE KeptFrom(Tail(lines), TRUE)

\* the valid rows of a file, in file order
KeptRows(file) == IF file.exists THEN KeptFrom(file.lines, FALSE) ELSE <<>>

\* C10: a group's series built from its three per-sphere files is as long as
\* the shortest of the three files' kept-row sequences, and its row k is the
\* k-th kept row of the A file, of the B file and of the C file.
C10_SeriesZipsKeptRows ==
    [][(GroupStep /\ ret' = "true") =>
          LET kept == [s \in SphereSet |-> KeptRows(disk[DrawnGroup][s])]
              series == rows'[DrawnGroup]
          IN  /\ \A s \in SphereSet : Len(series) <= Len(kept[s])
              /\ \E s \in SphereSet : Len(series) = Len(kept[s])
              /\ \A k \in 1..Len(series) :
                    series[k] = [A |-> kept.A[k], B |-> kept.B[k], C |-> kept.C[k]]]_vars

\* a series loaded from an A file whose first data line was rejected and a B
\* file with more kept rows than the series has
C10_Witness ==
    /\ call.op = "loadGroupFromIndividualFiles"
    /\ ret = "true"
    /\ rows[DrawnGroup] # <<>>
    /\ rows[DrawnGroup][1].A[1] = DataLineValue("A", 2)
    /\ Len(KeptRows(disk[DrawnGroup].B)) > Len(rows[DrawnGroup])

(***************************************************************************)
(* C11                                                                     *)
(***************************************************************************)
\* C11: when the sweep ends with a report of failure because the result file
\* could not be created, the result vectors of all maxRows rows it computed
\* are still held for the caller after the return.
C11_ResultsSurviveFailedSave ==
    [][(pc = "loop" /\ pc' = "idle" /\ ret' = "false") =>
          /\ Len(allResults') = maxRows
          /\ \A i \in 1..maxRows :
                allResults'[i] = calculateCapacitances(refreshGeometry(evalLog[i].tm))]_vars

(***************************************************************************)
(* C12 .. C16: the calculator                                              *)
(***************************************************************************)
\* initialize has returned on the calculator
Initialized == env.kind = "calculator" /\ ret \in {"true", "false"}

\* calculateCapacitances has returned its six results
Calculated == env.kind = "calculator" /\ call.op = "calculateCapacitances"

\* C12: when the stationary model paired with some positive model is not in
\* the model list, initialize returns false; whenever it returns true every
\* pairing has a scene.
C12_MissingStationaryAborts ==
    Initialized =>
       /\ (\E m \in PositiveModels : setupModelPairings[m] \notin env.models) =>
              ret = "false"
       /\ (ret = "true") =>
              /\ DOMAIN calc.modelPairings = PositiveModels
              /\ \A m \in DOMAIN calc.modelPairings :
                    m \in calc.scenes /\ calc.modelPairings[m] \in calc.allModels

\* initialize has failed at the B pairings: every positive model is present,
\* device and geometries can be created, only stationary_negative_B is absent
C12_Witness ==
    /\ Initialized
    /\ ret = "false"
    /\ env.models = ModelNames \ {"stationary_negative_B"}
    /\ env.device /\ env.geometry
    /\ calc.scenes = {"A1_model", "A2_model"}

\* C13: every result of calculateSingleCapacitance has capacitance >= 0 and
\* hitCount <= 2 * triangleCount.
C13_ResultWithinBounds ==
    Calculated =>
       \A i \in DOMAIN result :
          /\ result[i].capacitance >= 0
          /\ result[i].hitCount <= 2 * result[i].triangleCount

\* a result over a full mesh with a counted triangle
C13_Witness ==
    /\ Calculated
    /\ \E i \in DOMAIN result :
          /\ result[i].triangleCount = MaxTriangles
          /\ result[i].hitCount > 0
          /\ result[i].capacitance > 0

\* the rays of a triangle (1: along -normal, 2: along +normal) that find the
\* stationary surface within the cutoff
RaysThatHit(triangle) ==
    {k \in 1..2 : \E d \in triangle.along[k] : d <= MAX_RAY_DISTANCE}

RECURSIVE RayHitCount(_, _)
RayHitCount(triangles, n) ==
    IF n = 0
    THEN 0
    ELSE RayHitCount(triangles, n - 1) + Cardinality(RaysThatHit(triangles[n]))

RECURSIVE RayHitDistance(_, _)
RayHitDistance(triangles, n) ==
    IF n = 0
    THEN 0
    ELSE RayHitDistance(triangles, n - 1)
           + (IF 1 \in RaysThatHit(triangles[n]) THEN Only(triangles[n].along[1]) ELSE 0)
           + (IF 2 \in RaysThatHit(triangles[n]) THEN Only(triangles[n].along[2]) ELSE 0)

\* the positive models for which the calculator holds triangles and a scene
Evaluable == {i \in DOMAIN result :
                 /\ POSITIVE_MODEL_NAMES[i] \in DOMAIN calc.positiveTriangles
                 /\ POSITIVE_MODEL_NAMES[i] \in calc.scenes}

TrianglesOf(i) == calc.positiveTriangles[POSITIVE_MODEL_NAMES[i]]

\* C14: the hit count of a result is the number of rays, two per triangle,
\* that found the stationary surface within the cutoff distance.
C14_HitCountCountsRays ==
    Calculated =>
       \A i \in Evaluable :
          result[i].hitCount = RayHitCount(TrianglesOf(i), Len(TrianglesOf(i)))

\* C15: the average distance of a result is the mean of the hit distances of
\* the rays that hit, and 0 when no ray hit.
C15_AverageIsMeanHitDistance ==
    Calculated =>
       \A i \in Evaluable :
          \E rays \in {RayHitCount(TrianglesOf(i), Len(TrianglesOf(i)))} :
             IF rays = 0
             THEN result[i].averageDistance = 0
             ELSE result[i].averageDistance * rays
                    = RayHitDistance(TrianglesOf(i), Len(TrianglesOf(i)))

\* the stationary surface is farther than the cutoff (or absent) along both
\* directions of the triangle's normal
OutOfReach(triangle) ==
    \A k \in 1..2 : \A d \in triangle.along[k] : d > MAX_RAY_DISTANCE

WithinReach(triangle) == ~OutOfReach(triangle)

\* C16: a triangle whose stationary surface is farther than MAX_RAY_DISTANCE
\* along both normal directions contributes exactly 0, and a result is the
\* one computed without such triangles (but for its triangle count).
C16_OutOfReachContributesNothing ==
    /\ (env.kind = "calculator") =>
          \A t \in {env.mesh[j] : j \in DOMAIN env.mesh} :
             OutOfReach(t) => shootRayAndCalculateContribution(t) = 0
    /\ Calculated =>
          \A i \in Evaluable :
             result[i] =
                [calculateSingleCapacitance(
                    [calc EXCEPT !.positiveTriangles[POSITIVE_MODEL_NAMES[i]] =
                                    SelectSeq(TrianglesOf(i), WithinReach)],
                    POSITIVE_MODEL_NAMES[i])
                 EXCEPT !.triangleCount = Len(TrianglesOf(i))]

\* a result over a triangle with the surface 3 mm away and a triangle that
\* was counted
C16_Witness ==
    /\ Calculated
    /\ \E i \in Evaluable :
          /\ \E j \in DOMAIN TrianglesOf(i) :
                /\ OutOfReach(TrianglesOf(i)[j])
                /\ TrianglesOf(i)[j].area > 0
                /\ TrianglesOf(i)[j].along[2] = {MAX_RAY_DISTANCE + 1}
          /\ result[i].hitCount = 1

(***************************************************************************)
(* C17, C18, C20: the frame fitter and the solver                          *)
(***************************************************************************)
\* the solver has returned the transform of a row of offsets
Solved == env.kind = "solver" /\ result # <<>> /\ result.op = "calculateRigidBodyTransform"

\* C17: for a triple that is not collinear, when the deformed frame equals
\* the rest frame (as with all-zero offsets) the solved transform is the
\* identity.
C17_EqualFramesGiveIdentity ==
    (Solved /\ ~Collinear(env.A, env.B, env.C) /\ result.to = result.from) =>
        result.transform = IdentityTransform

\* the row of all-zero offsets was solved for a triple that is not collinear
\* and lies out of the coordinate planes
C17_Witness ==
    /\ Solved
    /\ ~Collinear(env.A, env.B, env.C)
    /\ result.offsets = [A |-> Zero3, B |-> Zero3, C |-> Zero3]
    /\ result.to = result.from
    /\ result.from.W[1] # 0 /\ result.from.W[2] # 0 /\ result.from.W[3] # 0
    /\ result.transform = IdentityTransform

\* C18: for any triple and translation t, the transform from the frame of
\* (A, B, C) to the frame of (A + t, B + t, C + t) has the identity as its
\* linear part and exactly t as its translation.
C18_TranslatedTripleGivesTranslation ==
    (Solved /\ result.offsets = [A |-> env.t, B |-> env.t, C |-> env.t]) =>
        result.transform = [IdentityTransform EXCEPT !.trans = env.t]

\* C20: for collinear A, B, C calculateCircumcenter returns the centroid
\* (A + B + C) / 3 as a vector.
C20_CollinearGivesCentroid ==
    (/\ env.kind = "solver" /\ result # <<>> /\ result.op = "calculateCircumcenter"
     /\ Collinear(env.A, env.B, env.C)) =>
        /\ result.value \in Seq(Int) /\ Len(result.value) = 3
        /\ Scale3(3, result.value) = Add3(Add3(env.A, env.B), env.C)

\* the centre of three distinct collinear points off the axes was computed
C20_Witness ==
    /\ env.kind = "solver" /\ result # <<>> /\ result.op = "calculateCircumcenter"
    /\ Collinear(env.A, env.B, env.C)
    /\ env.A # env.B /\ env.B # env.C /\ env.A # env.C
    /\ env.B[2] # 0
    /\ result.value # env.A

(***************************************************************************)
(* C19                                                                     *)
(***************************************************************************)
\* the pose store matrix is glm::mat4(1.0f)
IsIdentity(m) ==
    m.euler = Zero3 /\ m.trans = Zero3 /\ m.calc \in {NoTransform, IdentityTransform}

\* the product getCombinedTransform returned, with the factors that are the
\* identity matrix left out
Effective(c) ==
    [world |-> c.world,
     sub |-> IF c.subOn /\ ~(IsIdentity(c.subRotation) /\ IsIdentity(c.subTranslation))
             THEN <<c.subRotation, c.subTranslation>>
             ELSE <<IdentityMatrix, IdentityMatrix>>,
     parent |-> IF c.parentOn /\ ~(IsIdentity(c.parentRotation) /\ IsIdentity(c.parentTranslation))
                THEN <<c.parentTranslation, c.parentRotation>>
                ELSE <<IdentityMatrix, IdentityMatrix>>]

ZeroOffsets == [A |-> Zero3, B |-> Zero3, C |-> Zero3]

\* the results for the geometry the calculator was initialized with: main
\* calls initialize with the pose store as constructed
Baseline == calculateCapacitances(refreshGeometry(TransformManagerCtor))

\* two results of one model computed from the same world-space triangles
SameResult(r1, r2) ==
    r1.modelName = r2.modelName /\ Effective(r1.triangles) = Effective(r2.triangles)

\* C19: in a sweep, the result of a row whose offsets for a group are all
\* zero equals, for the positive models of that group, the baseline result
\* of the configuration the calculator was initialized with.
C19_ZeroRowGivesBaseline ==
    (pc # "idle") =>
       \A i \in 1..Len(allResults) : \A g \in GroupSet :
          (/\ evalLog[i].row < Len(rows[g])
           /\ rows[g][evalLog[i].row + 1] = ZeroOffsets) =>
             \A k \in 1..Len(POSITIVE_MODEL_NAMES) :
                (getModelSubGroup(POSITIVE_MODEL_NAMES[k]) = g) =>
                   SameResult(allResults[i][k], Baseline[k])

(***************************************************************************)
(* C21                                                                     *)
(***************************************************************************)
\* C21: in every state of the pose store the combined transform of each
\* stationary model is the one it had when the scenes were built (with the
\* pose store as constructed): the translation to its world position, with
\* no group factor and no Positiv factor.
C21_StationaryTransformFixed ==
    \A m \in NegativeModels :
       /\ getCombinedTransform(tm, m) = getCombinedTransform(TransformManagerCtor, m)
       /\ ~getCombinedTransform(tm, m).subOn
       /\ ~getCombinedTransform(tm, m).parentOn

\* a row has been applied: every group is switched on with a solved matrix
\* and Positiv, on at construction, is off
C21_Witness ==
    /\ \A g \in GroupSet : tm.enable[g] /\ tm.matrices[g] # TransformManagerCtor.matrices[g]
    /\ ~tm.enable["Positiv"]
    /\ TransformManagerCtor.enable["Positiv"]

(***************************************************************************)
(* C22                                                                     *)
(***************************************************************************)
\* the frame has an axis that is undefined (NaN)
UndefinedAxes(frame) == Zero3 \in {frame.U, frame.V, frame.W}

\* C22: createCoordinateSystem never returns a frame with an undefined axis,
\* collinear points included, and no transform solved from such a frame
\* leaves the per-group block for the pose store.
C22_NoUndefinedFrame ==
    Solved =>
       /\ ~UndefinedAxes(result.from)
       /\ ~UndefinedAxes(result.to)
       /\ result.transform.kind # "nan"

(***************************************************************************)
(* C23                                                                     *)
(***************************************************************************)
\* the cross product of the triangle's edges has no length: its area is 0
\* and calculateTriangleNormal answers the fallback axis (0, 0, 1)
Degenerate(triangle) == triangle.area = 0

Proper(triangle) == ~Degenerate(triangle)

\* C23 as stated: a triangle with a degenerate normal contributes 0 and no
\* ray is cast for it along any direction.
C23_DegenerateCastsNoRay ==
    (env.kind = "calculator") =>
       \A t \in {env.mesh[j] : j \in DOMAIN env.mesh} :
          Degenerate(t) =>
             shootRayAndCalculateContribution(t) = 0 /\ raysCast(t) = {}

\* C23: a triangle with a degenerate normal contributes 0 whatever lies
\* along the fallback axis, and a result is the one computed without such
\* triangles (but for its triangle count); both of its rays are cast.
C23_DegenerateContributesNothing ==
    /\ (env.kind = "calculator") =>
          \A t \in {env.mesh[j] : j \in DOMAIN env.mesh} :
             Degenerate(t) =>
                shootRayAndCalculateContribution(t) = 0 /\ raysCast(t) = 1..2
    /\ Calculated =>
          \A i \in Evaluable :
             result[i] =
                [calculateSingleCapacitance(
                    [calc EXCEPT !.positiveTriangles[POSITIVE_MODEL_NAMES[i]] =
                                    SelectSeq(TrianglesOf(i), Proper)],
                    POSITIVE_MODEL_NAMES[i])
                 EXCEPT !.triangleCount = Len(TrianglesOf(i))]

\* a result over a degenerate triangle with the surface at the cutoff along
\* both directions of the fallback axis and a triangle that was counted
C23_Witness ==
    /\ Calculated
    /\ \E i \in Evaluable :
          /\ \E j \in DOMAIN TrianglesOf(i) :
                /\ Degenerate(TrianglesOf(i)[j])
                /\ TrianglesOf(i)[j].along = <<{MAX_RAY_DISTANCE}, {MAX_RAY_DISTANCE}>>
          /\ result[i].hitCount = 1
          /\ result[i].capacitance > 0

(***************************************************************************)
(* C24                                                                     *)
(***************************************************************************)
\* C24: a load (initializeStepMode or processCSVFiles) that fails after an
\* earlier successful one leaves the three series, maxRows and the motion
\* envelopes as they were, so maxRows is still the largest series length.
C24_FailedLoadChangesNothing ==
    [][(/\ LoadStep
        /\ maxRows > 0 /\ maxRows = MaxRowsOf(rows)
        /\ ret' = "false" /\ pc' = "idle" /\ pc = "idle")
          => /\ rows' = rows
             /\ maxRows' = maxRows
             /\ stats' = stats
             /\ maxRows' = MaxRowsOf(rows')]_vars

(***************************************************************************)
(* C25: every read of a series element is within the series                *)
(***************************************************************************)
\* the elements of the three series the next step of the driver would read,
\* as <<group, index>>: stepToRow(n) for any n it accepts, printCurrentRowInfo
\* at the current row, and the sweep's block for the group it stands before
PendingReads ==
    UNION {
      {<<g, n>> : g \in IF pc = "idle" /\ StepRowAccepted(stepModeActive, n, maxRows)
                         THEN rowsRead(n, rows) ELSE {}} : n \in RowArgs}
    \cup {<<g, currentStepRow>> : g \in IF pc = "idle" /\ stepModeActive
                                         THEN rowsRead(currentStepRow, rows) ELSE {}}
    \cup {<<g, row>> : g \in {h \in rowsRead(row, rows) : pc = ApplyPc(h)}}

\* C25: in every reachable state, whatever calls led to it (failed loads and
\* loads that change the series lengths included), every read rows[i] of a
\* group's series that stepToRow, printCurrentRowInfo or the sweep makes has
\* i strictly below the current length of that series.
C25_ReadsWithinSeries ==
    \A read \in PendingReads : read[2] < Len(rows[read[1]])

\* the series have different lengths, the current row is past the end of one
\* of them after a step that read another, and printCurrentRowInfo was called
C25_Witness ==
    /\ call.op = "printCurrentRowInfo"
    /\ stepModeActive
    /\ \E g \in GroupSet : currentStepRow >= Len(rows[g])
    /\ \E g \in GroupSet : <<g, currentStepRow>> \in PendingReads
    /\ currentStepRow > 0

(***************************************************************************)
(* C26: the application's row and row count against the processor's        *)
(***************************************************************************)
\* C26: after any sequence of the key events S, N, P and B, whenever step
\* mode is initialized the application's currentRow and maxRows equal the
\* processor's getCurrentRow() and getMaxRows(), and currentRow < maxRows.
C26_AppMirrorsProcessor ==
    (pc = "idle" /\ app.stepModeInitialized) =>
       /\ app.currentRow = currentStepRow
       /\ app.maxRows = maxRows
       /\ app.currentRow < app.maxRows

(***************************************************************************)
(* C27: the pose store after a step depends on the row and the series only *)
(***************************************************************************)
\* the pose store stepToRow(n) leaves when it starts from the constructed one
PoseAtRow(n, r) ==
    ApplyGroupRow(
      ApplyGroupRow(
        ApplyGroupRow([tm |-> resetTransformations(TransformManagerCtor),
                       stats |-> resetCentroidStats], "TAG", n, r),
        "TBG", n, r),
      "TCG", n, r).tm

\* C27: the pose store after a successful stepToRow(n) is a function of n and
\* the loaded series only: whatever steps and sweeps came before, its enable
\* flags, scalars and group matrices are those of stepToRow(n) on the
\* constructed pose store, and stepToRow(n) right after a successful
\* stepToRow(n) leaves the pose store as it is.
C27_PoseDependsOnRowOnly ==
    [][\A n \in RowArgs :
          (CallStep("stepToRow", n) /\ ret' = "true") =>
             /\ tm' = PoseAtRow(n, rows)
             /\ (call = [op |-> "stepToRow", arg |-> n] /\ ret = "true") => tm' = tm]_vars

\* row 1 has been stepped to after a sweep and other steps left another pose:
\* one group has a row 1 and another has none
C27_Witness ==
    /\ call = [op |-> "stepToRow", arg |-> 1]
    /\ ret = "true"
    /\ Len(evalLog) > 0
    /\ tm = PoseAtRow(1, rows)
    /\ \E g \in GroupSet : tm.enable[g]
    /\ \E g \in GroupSet : ~tm.enable[g]

(***************************************************************************)
(* C28: the Positiv flag is switched off for good                          *)
(***************************************************************************)
\* the Positiv rotation and translation are part of no model's transform
PositivUnused(t) ==
    \A m \in PositiveModels \cup NegativeModels :
       /\ ~getCombinedTransform(t, m).parentOn
       /\ getCombinedTransform(t, m).parentRotation = IdentityMatrix
       /\ getCombinedTransform(t, m).parentTranslation = IdentityMatrix

\* this step is a successful stepToRow or the start of a sweep row
FirstReset ==
    \/ \E n \in RowArgs : CallStep("stepToRow", n) /\ ret' = "true"
    \/ pc = "loop" /\ pc' = "applyTAG"

ScenesAttempted ==
    /\ Initialized
    /\ calc.device
    /\ PositiveModels \subseteq calc.allModels

\* C29: every scene createEmbreeScenes creates is either stored in the scenes
\* map, where cleanup releases it, or released before createEmbreeScenes
\* returns; when initialization aborts because a stationary model or its
\* geometry is missing, no created scene is left unreleased and unreferenced.
C29_NoSceneLeftBehind ==
    ScenesAttempted =>
       scenesCreated(calc.allModels, calc.modelPairings, env.geometry)
          \subseteq (calc.scenes \cup scenesReleasedEarly)

(***************************************************************************)
(* C30: the vertex reads of extractTrianglesFromModel                      *)
(***************************************************************************)
Extracted == env.kind = "model" /\ call.op = "extractTrianglesFromModel"

\* one index of the triple has idx * 3 + 2 at or past the end of the array
OutOfRangeTriangle(t, size) == \E j \in 1..3 : indexSkippedExact(t[j], size)

\* C30: with the vertex indices taken as 32-bit unsigned integers,
\* extractTrianglesFromModel reads vertices[idx*3 .. idx*3+2] only when
\* idx*3+2 is below the length of the vertex array, and a triangle with an
\* index out of range (indices near 2^32-1 or above 2^32/3 included) is
\* skipped and does not count among the triangles.
C30_ReadsWithinVertices ==
    Extracted =>
       /\ \A read \in result.reads : ULess(read, env.vertices)
       /\ \A k \in 1..Len(result.triangles) :
             ~OutOfRangeTriangle(result.triangles[k], env.vertices)

====
